---- MODULE Spec2Model ----
(***************************************************************************)
(* Connection and session core of the ComfyAPI gateway.                    *)
(*                                                                         *)
(*   Spec      the ConnectionManager (src/comfyui/connection_manager.py)   *)
(*             with its three TimeoutMaps (src/utils/collections.py), the  *)
(*             per-pair backend pump, the client handlers of /ws/register  *)
(*             and the three periodic sweepers.                            *)
(*   SpecTwo   the same handlers and sweepers with two clients at once, in  *)
(*             front of a backend that stays up.                           *)
(*   SpecIdle  SpecTwo with gateway-minted connection ids only and a clock *)
(*             that runs for one and a half idle timeouts.                 *)
(*   SpecJobs  the job registry, the workflow submitter and the status     *)
(*             listener of ComfyUIManager (src/comfyui/comfyui_manager.py).*)
(*   SpecPump  one client and its pump, with more frames from the engine.  *)
(*   SpecAuth  /ws/register (src/api/routers/websocket.py) for clients     *)
(*             with and without the right token.                           *)
(*   SpecFlow  queue requests (src/api/routers/workflows.py) and the       *)
(*             workflow descriptor they rewrite.                           *)
(*   SpecMap   a TimeoutMap used on its own, with a callback that may      *)
(*             raise.                                                      *)
(*   SpecTTL   the job registry over a whole day of the clock.             *)
(*   SpecDial  connect_to_backend of ComfyUIManager, attempt by attempt,   *)
(*             and the registration of the socket it returns.              *)
(*   SpecBackoff  SpecPump in front of an engine that also refuses         *)
(*             reconnects, any number of times in a row.                   *)
(*   SpecText  one client that sends several text frames while its         *)
(*             backend socket is lost and replaced.                        *)
(*   SpecOmit  SpecFlow with callers that may omit an input.               *)
(*   SpecListen  the status listener with connects that fail and sockets   *)
(*             that drop, up to the end of its retry budget.               *)
(*   SpecClose  SpecTwo with a close callback registered on both kinds     *)
(*             of connection.                                              *)
(*   SpecLock  disconnect and the three sweeps statement by statement,     *)
(*             with the asyncio.Lock of each map and its holder.           *)
(*                                                                         *)
(* Scheduling is asyncio's: a coroutine runs without interruption up to    *)
(* its next real suspension (network I/O, sleep).  Acquiring the           *)
(* TimeoutMap lock never suspends, because the lock is never held across   *)
(* an await.  One action of the model is therefore one run of a coroutine  *)
(* from a suspension point to the next one.                                *)
(***************************************************************************)
EXTENDS Integers, Sequences, FiniteSets, TLC

\* ---------------------------------------------------------------- bounds
NumClients == 2          \* client websockets (one /ws/register handler each)
MaxSid == 2              \* backend sessions handed out by the engine
MaxBackend == 3          \* backend sockets dialled over a run
MaxTime == 3600          \* the clock stops here
MaxIdleTime == 5400      \* ... and here where idle clients are studied
TickStep == 1800         \* the clock advances in steps of this many seconds
MaxClientMsgs == 1       \* text frames the clients send
MaxTexts == 3            \* ... and where their order is studied
MaxFrames == 1           \* binary frames the engine sends
MaxRequests == 2         \* POST /workflows/{id}/queue requests
MaxEvents == 2           \* messages the engine sends on the status socket
MaxListenerFailures == 5 \* times the status socket fails to connect or breaks
MaxPumpFrames == 3       \* frames the engine sends where the pump is studied
MaxValue == 2            \* input values a caller can supply
MaxMapKey == 2           \* keys of the TimeoutMap that stands alone
MaxMapValue == 1         \* its values are 0 .. MaxMapValue
MaxMapOps == 4
MaxJobTime == 86400
JobTickStep == 86400           \* set, refresh and pop calls made on it

\* ------------------------------------------------------ program constants
IdleTimeout == 3600      \* ConnectionManager.__init__, idle_timeout = 60 * 60
TaskIdleTimeout == 3600  \* _sid_task_map, idle_timeout = 60 * 60
max_backoff == 128       \* backend_to_client
MAX_RETRIES == 5         \* comfyui_manager.py
JobIdleTimeout == 86400  \* the three job maps, idle_timeout = 60 * 60 * 24

W == 1 .. NumClients                 \* client websockets / handlers
CX == NumClients + 1                 \* a connection id chosen by the caller
CIDs == W \cup {CX}
SIDs == 1 .. MaxSid
BIDs == 1 .. MaxBackend
Sweepers == {"swC", "swS", "swT"}    \* run_cleanup of the three maps
Reqs == 1 .. MaxRequests             \* queue requests; r is also its request_id
Prompts == 1 .. MaxRequests          \* prompt ids, minted by the engine
NoneVal == 0                         \* Python's None for ids (ids are >= 1)

VARIABLES
    now,            \* time.time()
    client,         \* _client_connections : TimeoutMap cid -> client websocket
    server,         \* _server_connections : TimeoutMap sid -> backend socket
    task,           \* _sid_task_map       : TimeoutMap sid -> pump task
    cid_sid_map,    \* _cid_sid_map
    sid_cid_map,    \* _sid_cid_map
    wsState,        \* client websocket: "new", "open", "closed" (by the gateway), "gone" (peer left)
    bState,         \* backend socket: "none", "open", "closed"
    pump,           \* backend_to_client task of the session, by sid
    hpc,            \* handler position, by client websocket
    hcid,           \* handler's connection_id
    hsid,           \* handler's sid (handle_client_connection)
    hsent,          \* text frames the client has sent
    todo,           \* per handler: what is left of the pops it is awaiting
    swtodo,         \* per sweeper: what is left of the pops it is awaiting
    swpc,           \* sweeper: "run" or "dead" (an exception escaped run_cleanup)
    swStart,        \* history: the time the sweeper's latest cleanup() read, -1 before
    nextSid,        \* sessions minted by the engine so far
    nextB,          \* backend sockets dialled so far
    nframes,        \* binary frames emitted by the engine so far
    clientFrames,   \* frames delivered to each client websocket
    backendFrames,  \* text frames delivered to each backend socket
    lim,            \* what the environment does at most in this run
    torn,           \* history: live pairs whose removal has completed
    notified,       \* history: the calls of the connection-close callbacks
    rpc,            \* queue_workflow / run_workflow position, by request
    rcid,           \* websocket_cid of the request
    rsid,           \* websocket_sid looked up for the request
    rprompt,        \* prompt id the engine answered the request's POST with
    nextPrompt,     \* prompts queued by the engine so far
    prompt_to_job,          \* _prompt_to_job_map      : TimeoutMap prompt_id -> WorkflowTask
    prompt_to_callback,     \* _prompt_to_callback_map : TimeoutMap prompt_id -> status_callback
    request_id_to_prompt,   \* _request_id_to_prompt   : TimeoutMap request_id -> prompt_id
    statusq,        \* messages in flight on the status socket
    lpc,            \* _monitor_status_socket: "connecting", "recv", "dead"
    lfails,         \* times the status socket failed to connect or broke
    attempt,        \* its loop variable
    lruns,          \* history: messages handled by the end of each attempt
    nevents,        \* messages the engine has sent on the status socket
    handled,        \* history: what the listener did with each message it read
    recvd,          \* history: the frames each pump has read from its backend sockets
    descriptor,     \* the WorkflowDescriptor held by the lru_cache of analyze_workflow
    posted,         \* history: per request, its inputs and the prompt it posted
    imap,           \* a TimeoutMap of its own, with a callback of the caller's
    mops,           \* set, refresh and pop calls made on it so far
    msweep,         \* its run_cleanup task: position and expired_keys left
    mpop,           \* the caller's pop: "idle", or "evicting" inside on_evict
    removed,        \* history: the (key, value) instances that left the map
    evicts,         \* history: the on_evict(key, value) invocations
    dial,           \* connect_to_backend: position, attempt, sid and backend_ws
    dsock,          \* the sockets websockets.connect has returned to it
    lk,             \* TimeoutMap._lock of the three connection maps: its holder
    lth,            \* the operations each thread of the lock-level teardown has left
    cbheld          \* history: maps whose callback was called under their own lock

vars == <<now, client, server, task, cid_sid_map, sid_cid_map, wsState, bState,
          pump, hpc, hcid, hsid, hsent, todo, swtodo, swpc, swStart, nextSid, nextB,
          nframes, clientFrames, backendFrames, lim, torn, notified, rpc, rcid, rsid, rprompt,
          nextPrompt, prompt_to_job, prompt_to_callback, request_id_to_prompt, statusq,
          lpc, lfails, attempt, lruns, nevents, handled, recvd, descriptor, posted,
          imap, mops, msweep, mpop, removed, evicts, dial, dsock, lk, lth, cbheld>>

\* the state of ComfyUIManager and of the queue requests
jobVars == <<rpc, rcid, rsid, rprompt, nextPrompt, prompt_to_job, prompt_to_callback,
             request_id_to_prompt, statusq, lpc, lfails, attempt, lruns, nevents, handled,
             descriptor, posted>>

\* the state of the TimeoutMap that stands alone
mapVars == <<imap, mops, msweep, mpop, removed, evicts>>

\* the state of a call of connect_to_backend
dialVars == <<dial, dsock>>

\* the locks of the connection maps and the threads that take them
lockVars == <<lk, lth, cbheld>>

\* ------------------------------------------------------------ TimeoutMap
\* A map is [data, ts, heap]; the heap is kept as the sorted sequence of its
\* (expiration_time, key) tuples, which is the order heappop yields them in.
EmptyMap == [data |-> <<>>, ts |-> <<>>, heap |-> <<>>]

Without(f, k) == [x \in DOMAIN f \ {k} |-> f[x]]
With(f, k, v) == [x \in DOMAIN f \cup {k} |-> IF x = k THEN v ELSE f[x]]

TupleLeq(a, b) == a[1] < b[1] \/ (a[1] = b[1] /\ a[2] <= b[2])

RECURSIVE heappush(_, _)
heappush(heap, e) ==
    IF heap = <<>> THEN <<e>>
    ELSE IF TupleLeq(e, Head(heap)) THEN <<e>> \o heap
    ELSE <<Head(heap)>> \o heappush(Tail(heap), e)

TM_set(m, key, value, timeout) ==
    [data |-> With(m.data, key, value),
     ts   |-> With(m.ts, key, now),
     heap |-> heappush(m.heap, <<now + timeout, key>>)]

TM_get(m, key) == IF key \in DOMAIN m.data THEN m.data[key] ELSE NoneVal

TM_refresh(m, key, timeout) ==
    IF key \in DOMAIN m.data
    THEN [m EXCEPT !.ts = With(m.ts, key, now),
                   !.heap = heappush(m.heap, <<now + timeout, key>>)]
    ELSE m

\* the locked part of pop: the entry leaves data and timestamps
TM_remove(m, key) ==
    [m EXCEPT !.data = Without(m.data, key), !.ts = Without(m.ts, key)]

\* the locked part of cleanup: the heap after the scan and expired_keys
RECURSIVE cleanup_scan(_, _, _, _)
cleanup_scan(heap, ts, timeout, expired) ==
    IF heap = <<>> \/ Head(heap)[1] > now
    THEN [heap |-> heap, expired |-> expired]
    ELSE LET key == Head(heap)[2]
             rest == Tail(heap)
         IN  IF key \notin DOMAIN ts
             THEN cleanup_scan(rest, ts, timeout, expired)
             ELSE IF ts[key] + timeout <= now
                  THEN cleanup_scan(rest, ts, timeout, Append(expired, key))
                  ELSE [heap |-> heappush(rest, <<ts[key] + timeout, key>>),
                        expired |-> expired]


\* -------------------------------------------------- workflow descriptors
\* The gateway serves one workflow.  Its file has an external input node and
\* two websocket image output nodes.
InputNodes == {"in1"}
OutputNodes == <<"out1", "out2">>
EmptyStr == 0        \* ''
FileValue == 0       \* the input_id literal of the file

\* load_workflow: node id -> the "inputs" dict of the node
load_workflow ==
    [n \in InputNodes \cup {OutputNodes[i] : i \in DOMAIN OutputNodes} |->
        IF n \in InputNodes THEN [input_id |-> FileValue]
        ELSE [output_id |-> EmptyStr, client_id |-> EmptyStr]]

\* analyze_workflow(workflow_id, path): the descriptor of the file.  nodes and
\* workflow_json hold the same node dicts, so one field stands for both.
analyze_workflow ==
    [inputs  |-> <<[node_id |-> "in1", value |-> load_workflow["in1"].input_id]>>,
     outputs |-> [i \in DOMAIN OutputNodes |->
                    [node_id |-> OutputNodes[i], connection_id |-> EmptyStr,
                     output_id |-> EmptyStr]],
     nodes   |-> load_workflow]

\* "for new_input in descriptor.inputs: nodes[node_id]['inputs']['input_id'] = value"
RECURSIVE set_inputs(_, _)
set_inputs(nodes, inputs) ==
    IF inputs = <<>> THEN nodes
    ELSE LET i == Head(inputs)
         IN  set_inputs([nodes EXCEPT ![i.node_id] = With(@, "input_id", i.value)],
                        Tail(inputs))

\* "for new_output in descriptor.outputs: ... ['output_id'] = new_output.output_id;
\*  ... ['client_id'] = new_output.connection_id"
RECURSIVE set_outputs(_, _)
set_outputs(nodes, outputs) ==
    IF outputs = <<>> THEN nodes
    ELSE LET o == Head(outputs)
         IN  set_outputs([nodes EXCEPT ![o.node_id] =
                             With(With(@, "output_id", o.output_id),
                                  "client_id", o.connection_id)],
                         Tail(outputs))

\* the rewrite at the head of run_workflow, done on the descriptor it is given
run_workflow_rewrite(d, sid, request_id) ==
    LET d1 == [d EXCEPT !.outputs[1].connection_id = sid,
                        !.outputs[1].output_id = request_id]
    IN  [d1 EXCEPT !.nodes = set_outputs(set_inputs(d1.nodes, d1.inputs), d1.outputs)]

\* GET /workflows/{id}: the descriptor analyze_workflow returns from its cache
get_workflow == descriptor

\* ------------------------------------------------ frames of the image socket
\* A binary frame of the engine: 8 bytes of header (event type and image
\* format, 4 bytes each) and the image, here one byte that numbers the frame.
BinaryFrame(n) == [kind |-> "bytes", body |-> <<0, 0, 0, 1, 0, 0, 0, 2, 100 + n>>]
TextFrame(n) == [kind |-> "str", body |-> <<100 + n>>]

\* message[4:]
skip_half_header(message) == SubSeq(message, 5, Len(message))

\* message[8:]
skip_header(message) == SubSeq(message, 9, Len(message))

\* ------------------------------------------- teardown: pops and callbacks
\* The registry as one value, so that a chain of pops and eviction callbacks
\* can be run up to its next suspension.
CurSt == [client |-> client, server |-> server, task |-> task,
          cs |-> cid_sid_map, sc |-> sid_cid_map,
          ws |-> wsState, bs |-> bState, pump |-> pump, torn |-> torn,
          notified |-> notified]

Op(name, key, top) == [op |-> name, k |-> key, top |-> top, pairs |-> {}]
EndOp(pairs) == [op |-> "end", k |-> NoneVal, top |-> FALSE, pairs |-> pairs]

\* A pair is live when both indexes name each other and both sides are
\* registered; the record keeps the objects registered for it.
LivePairs(st) ==
    {[cid |-> c, sid |-> st.cs[c], ws |-> st.client.data[c], b |-> st.server.data[st.cs[c]]] :
        c \in {x \in DOMAIN st.cs :
                 /\ st.cs[x] \in DOMAIN st.sc
                 /\ st.sc[st.cs[x]] = x
                 /\ x \in DOMAIN st.client.data
                 /\ st.cs[x] \in DOMAIN st.server.data}}

\* live pairs that lose an entry to pop(cid) on the client map
HitByClientPop(st, cid) ==
    {p \in LivePairs(st) : p.cid = cid \/ (cid \in DOMAIN st.cs /\ p.sid = st.cs[cid])}

\* live pairs that lose an entry to pop(sid) on the server map
HitByServerPop(st, sid) ==
    {p \in LivePairs(st) : p.sid = sid \/ (sid \in DOMAIN st.sc /\ p.cid = st.sc[sid])}

\* "for callback in self._connection_close_callbacks: await callback(id)" at
\* the end of an eviction callback: one operation for the loop, none when
\* no callback is registered
connection_close_callbacks(op, id) ==
    IF lim.callbacks > 0 THEN <<Op(op, id, FALSE)>> ELSE <<>>

\* _task_evict_callback: task.cancel()
task_evict_callback(pm, sid) == [pm EXCEPT ![sid].st = "cancelled"]

\* Runs the pending operations of a thread up to the next suspension.
\*   popC  _client_connections.pop(cid) and _evict_client_callback
\*   popS  _server_connections.pop(sid) and _evict_server_callback
\*   popT  _sid_task_map.pop(sid) and _task_evict_callback
\*   closeC / closeB  the close() of a client / backend websocket (suspends)
\*   notifyC / notifyS  the close callbacks, called by _evict_client_callback
\*         with its cid / by _evict_server_callback with its sid
\*   end   the outermost pop has returned
\* err is set when a KeyError escapes an eviction callback.
RECURSIVE Run(_, _)
Run(st, ops) ==
    IF ops = <<>> THEN [st |-> st, todo |-> <<>>, err |-> FALSE]
    ELSE
    LET o == Head(ops)
        rest == Tail(ops)
    IN
    CASE o.op = "popC" ->
           IF o.k \notin DOMAIN st.client.data THEN Run(st, rest)
           ELSE LET cid == o.k
                    ws == st.client.data[cid]
                    fin == IF o.top THEN <<EndOp(HitByClientPop(st, cid))>> ELSE <<>>
                    st1 == [st EXCEPT !.client = TM_remove(st.client, cid)]
                IN  IF cid \in DOMAIN st.cs
                    THEN LET sid == st.cs[cid]
                             st2 == [st1 EXCEPT !.cs = Without(st.cs, cid)]
                         IN  IF sid \notin DOMAIN st.sc
                             THEN [st |-> st2, todo |-> <<>>, err |-> TRUE]
                             ELSE Run([st2 EXCEPT !.sc = Without(st.sc, sid)],
                                      <<Op("popS", sid, FALSE), Op("closeC", ws, FALSE)>>
                                         \o connection_close_callbacks("notifyC", cid)
                                         \o fin \o rest)
                    ELSE Run(st1, <<Op("closeC", ws, FALSE)>>
                                     \o connection_close_callbacks("notifyC", cid)
                                     \o fin \o rest)
      [] o.op = "popS" ->
           IF o.k \notin DOMAIN st.server.data THEN Run(st, rest)
           ELSE LET sid == o.k
                    b == st.server.data[sid]
                    fin == IF o.top THEN <<EndOp(HitByServerPop(st, sid))>> ELSE <<>>
                    st1 == [st EXCEPT !.server = TM_remove(st.server, sid)]
                    tail == <<Op("popT", sid, FALSE), Op("closeB", b, FALSE)>>
                               \o connection_close_callbacks("notifyS", sid) \o fin \o rest
                IN  IF sid \in DOMAIN st.sc
                    THEN LET cid == st.sc[sid]
                             st2 == [st1 EXCEPT !.sc = Without(st.sc, sid)]
                         IN  IF cid \notin DOMAIN st.cs
                             THEN [st |-> st2, todo |-> <<>>, err |-> TRUE]
                             ELSE Run([st2 EXCEPT !.cs = Without(st.cs, cid)],
                                      <<Op("popC", cid, FALSE)>> \o tail)
                    ELSE Run(st1, tail)
      [] o.op = "popT" ->
           IF o.k \notin DOMAIN st.task.data THEN Run(st, rest)
           ELSE Run([st EXCEPT !.task = TM_remove(st.task, o.k),
                               !.pump = task_evict_callback(st.pump, o.k)], rest)
      [] o.op = "closeB" ->
           IF st.bs[o.k] # "closed"
           THEN [st |-> [st EXCEPT !.bs[o.k] = "closed"], todo |-> rest, err |-> FALSE]
           ELSE Run(st, rest)
      [] o.op = "closeC" ->
           IF st.ws[o.k] # "gone"
           THEN [st |-> [st EXCEPT !.ws[o.k] = "closed"], todo |-> rest, err |-> FALSE]
           ELSE Run(st, rest)
      [] o.op \in {"notifyC", "notifyS"} ->
           Run([st EXCEPT !.notified =
                   Append(@, [callback |-> 1, arg |-> o.k,
                              names |-> IF o.op = "notifyC" THEN "cid" ELSE "sid"])],
               rest)
      [] o.op = "end" ->
           Run([st EXCEPT !.torn = st.torn \cup o.pairs], rest)

\* the registry after a run
SetSt(st) ==
    /\ client' = st.client
    /\ server' = st.server
    /\ task' = st.task
    /\ cid_sid_map' = st.cs
    /\ sid_cid_map' = st.sc
    /\ wsState' = st.ws
    /\ bState' = st.bs
    /\ pump' = st.pump
    /\ torn' = st.torn
    /\ notified' = st.notified


\* ------------------------------------------------------------------ Init
\* the token header a client presents at the handshake of /ws/register
Tokens == {"valid", "invalid", "missing"}
AllValid == [w \in W |-> "valid"]

NoPump == [st |-> "none", b |-> NoneVal, ws |-> NoneVal, backoff |-> 1]

InitWith(l) ==
    /\ lim = [l EXCEPT !.values = 1 .. l.values]
    /\ now = 0
    /\ client = EmptyMap
    /\ server = EmptyMap
    /\ task = EmptyMap
    /\ cid_sid_map = <<>>
    /\ sid_cid_map = <<>>
    /\ wsState = [w \in W |-> "new"]
    /\ bState = [b \in BIDs |-> "none"]
    /\ pump = [s \in SIDs |-> NoPump]
    /\ hpc = [w \in W |-> "idle"]
    /\ hcid = [w \in W |-> NoneVal]
    /\ hsid = [w \in W |-> NoneVal]
    /\ hsent = [w \in W |-> 0]
    /\ todo = [w \in W |-> <<>>]
    /\ swtodo = [t \in Sweepers |-> <<>>]
    /\ swpc = [t \in Sweepers |-> "run"]
    /\ swStart = [t \in Sweepers |-> -1]
    /\ nextSid = 0
    /\ nextB = 0
    /\ nframes = 0
    /\ clientFrames = [w \in W |-> <<>>]
    /\ backendFrames = [b \in BIDs |-> <<>>]
    /\ torn = {}
    /\ notified = <<>>
    /\ rpc = [r \in Reqs |-> "idle"]
    /\ rcid = [r \in Reqs |-> NoneVal]
    /\ rsid = [r \in Reqs |-> NoneVal]
    /\ rprompt = [r \in Reqs |-> NoneVal]
    /\ nextPrompt = 0
    /\ prompt_to_job = EmptyMap
    /\ prompt_to_callback = EmptyMap
    /\ request_id_to_prompt = EmptyMap
    /\ statusq = <<>>
    /\ lpc = "connecting"
    /\ lfails = 0
    /\ attempt = 1
    /\ lruns = <<>>
    /\ nevents = 0
    /\ handled = <<>>
    /\ recvd = [s \in SIDs |-> <<>>]
    /\ descriptor = analyze_workflow
    /\ posted = <<>>
    /\ imap = EmptyMap
    /\ mops = 0
    /\ msweep = [pc |-> "idle", keys |-> <<>>]
    /\ mpop = "idle"
    /\ removed = <<>>
    /\ evicts = <<>>
    /\ dial = [pc |-> "idle", attempt |-> 0, want |-> NoneVal, sid |-> NoneVal,
               backend_ws |-> NoneVal]
    /\ dsock = <<>>
    /\ lk = [m \in {"C", "S", "T"} |-> [kind |-> "none", id |-> 0]]
    /\ lth = [t \in {[kind |-> "handler", id |-> w] : w \in W}
                    \cup {[kind |-> "sweeper", id |-> i] : i \in 1 .. 3} |-> <<>>]
    /\ cbheld = {}

\* ------------------------------------------------- handlers (/ws/register)
\* disconnect(connection_id) as called by handler w; after it the handler
\* continues at position next.  (The fallback pop on the server map looks a
\* cid up among sids; gateway and engine ids never coincide, so it finds
\* nothing and is left out.)
disconnect(w, st, next) ==
    LET r == Run(st, <<Op("popC", hcid[w], TRUE)>>)
    IN  /\ SetSt(r.st)
        /\ todo' = [todo EXCEPT ![w] = r.todo]
        /\ hpc' = [hpc EXCEPT ![w] = IF r.err THEN "failed"
                                     ELSE IF r.todo = <<>> THEN next
                                     ELSE IF next = "done" THEN "disc_handle"
                                     ELSE "disc_accept"]

\* the connection ids a caller can supply: one it made up, or one announced
\* to some client earlier
Supplied(w) == {CX} \cup {hcid[v] : v \in {x \in W \ {w} : clientFrames[x] # <<>>}}

\* accept_client_connection up to the dial of the backend.  A cid that
\* already has a sid reaches "sid in self._server_connections", which raises
\* TypeError (TimeoutMap has no __contains__); the exception leaves
\* ws_register and the server closes the websocket.
accept_client_connection(w, cid) ==
    /\ hpc[w] = "idle"
    /\ w <= lim.clients
    /\ cid \in {w} \cup (IF lim.supplied THEN Supplied(w) ELSE {})
    /\ hcid' = [hcid EXCEPT ![w] = cid]
    /\ client' = TM_set(client, cid, w, IdleTimeout)
    /\ IF cid \in DOMAIN cid_sid_map
       THEN /\ hpc' = [hpc EXCEPT ![w] = "failed"]
            /\ wsState' = [wsState EXCEPT ![w] = "closed"]
       ELSE /\ hpc' = [hpc EXCEPT ![w] = "dial"]
            /\ wsState' = [wsState EXCEPT ![w] = "open"]
    /\ UNCHANGED <<now, server, task, cid_sid_map, sid_cid_map, bState, pump, hsid,
                   hsent, todo, swtodo, swpc, swStart, nextSid, nextB, nframes, clientFrames,
                   backendFrames, lim, torn, notified, jobVars, recvd, mapVars, dialVars, lockVars>>

\* proxy_comfyui_connection / connect_to_backend succeed, the indexes are
\* installed and {"uuid": cid} is sent
accept_paired(w) ==
    /\ hpc[w] = "dial"
    /\ nextSid < MaxSid
    /\ nextB < lim.backends
    /\ LET sid == nextSid + 1
           b == nextB + 1
           cid == hcid[w]
           st == [CurSt EXCEPT
                    !.bs[b] = "open",
                    !.server = TM_set(server, sid, b, IdleTimeout),
                    !.pump[sid] = [st |-> "recv", b |-> b, ws |-> w, backoff |-> 1],
                    !.task = TM_set(task, sid, sid, TaskIdleTimeout),
                    !.cs = With(cid_sid_map, cid, sid),
                    !.sc = With(sid_cid_map, sid, cid)]
       IN  /\ nextSid' = sid
           /\ nextB' = b
           /\ IF wsState[w] = "gone"
              THEN /\ disconnect(w, st, "announced")
                   /\ UNCHANGED clientFrames
              ELSE /\ SetSt(st)
                   /\ hpc' = [hpc EXCEPT ![w] = "announced"]
                   /\ clientFrames' = [clientFrames EXCEPT ![w] =
                         IF wsState[w] = "open" THEN Append(@, <<"uuid", cid>>) ELSE @]
                   /\ UNCHANGED todo
    /\ UNCHANGED <<now, hcid, hsid, hsent, swtodo, swpc, swStart, nframes, backendFrames, lim, jobVars, recvd, mapVars, dialVars, lockVars>>

\* connect_to_backend raises ConnectionError after MAX_RETRIES attempts; it
\* leaves accept_client_connection and ws_register
accept_dial_failed(w) ==
    /\ hpc[w] = "dial"
    /\ hpc' = [hpc EXCEPT ![w] = "failed"]
    /\ wsState' = [wsState EXCEPT ![w] = IF @ = "open" THEN "closed" ELSE @]
    /\ UNCHANGED <<now, client, server, task, cid_sid_map, sid_cid_map, bState, pump,
                   hcid, hsid, hsent, todo, swtodo, swpc, swStart, nextSid, nextB, nframes,
                   clientFrames, backendFrames, lim, torn, notified, jobVars, recvd, mapVars, dialVars, lockVars>>

\* handle_client_connection: the two lookups before the receive loop
handle_client_connection(w) ==
    /\ hpc[w] = "announced"
    /\ IF TM_get(client, hcid[w]) = NoneVal \/ hcid[w] \notin DOMAIN cid_sid_map
       THEN /\ hpc' = [hpc EXCEPT ![w] = "done"]
            /\ wsState' = [wsState EXCEPT ![w] = IF @ = "open" THEN "closed" ELSE @]
            /\ hsid' = hsid
       ELSE /\ hpc' = [hpc EXCEPT ![w] = "recv"]
            /\ hsid' = [hsid EXCEPT ![w] = cid_sid_map[hcid[w]]]
            /\ wsState' = wsState
    /\ UNCHANGED <<now, client, server, task, cid_sid_map, sid_cid_map, bState, pump,
                   hcid, hsent, todo, swtodo, swpc, swStart, nextSid, nextB, nframes,
                   clientFrames, backendFrames, lim, torn, notified, jobVars, recvd, mapVars, dialVars, lockVars>>

SumSent == LET RECURSIVE Sum(_)
                  Sum(S) == IF S = {} THEN 0
                            ELSE LET x == CHOOSE y \in S : TRUE IN hsent[x] + Sum(S \ {x})
              IN Sum(W)

\* client_text with _update_activity left out
client_text_unrefreshed(w) ==
    /\ hpc[w] = "recv"
    /\ wsState[w] = "open"
    /\ SumSent < lim.msgs
    /\ hsent' = [hsent EXCEPT ![w] = @ + 1]
    /\ LET st == CurSt
           b == TM_get(server, hsid[w])
       IN  IF b # NoneVal /\ bState[b] # "open"
           THEN /\ disconnect(w, st, "done")
                /\ UNCHANGED backendFrames
           ELSE /\ SetSt(st)
                /\ backendFrames' = IF b = NoneVal THEN backendFrames
                                    ELSE [backendFrames EXCEPT ![b] = Append(@, <<w, hsent'[w]>>)]
                /\ UNCHANGED <<hpc, todo>>
    /\ UNCHANGED <<now, hcid, hsid, swtodo, swpc, swStart, nextSid, nextB, nframes, clientFrames,
                   lim, jobVars, recvd, mapVars, dialVars, lockVars>>

\* one turn of the receive loop: receive_text, _update_activity,
\* send_server_message; a failing send ends the loop in disconnect
client_text(w) ==
    /\ hpc[w] = "recv"
    /\ wsState[w] = "open"
    /\ SumSent < lim.msgs
    /\ hsent' = [hsent EXCEPT ![w] = @ + 1]
    /\ LET st == [CurSt EXCEPT !.client = TM_refresh(client, hcid[w], IdleTimeout)]
           b == TM_get(server, hsid[w])
       IN  IF b # NoneVal /\ bState[b] # "open"
           THEN /\ disconnect(w, st, "done")
                /\ UNCHANGED backendFrames
           ELSE /\ SetSt(st)
                /\ backendFrames' = IF b = NoneVal THEN backendFrames
                                    ELSE [backendFrames EXCEPT ![b] = Append(@, <<w, hsent'[w]>>)]
                /\ UNCHANGED <<hpc, todo>>
    /\ UNCHANGED <<now, hcid, hsid, swtodo, swpc, swStart, nextSid, nextB, nframes, clientFrames,
                   lim, jobVars, recvd, mapVars, dialVars, lockVars>>

\* the peer closes its websocket
client_gone(w) ==
    /\ wsState[w] = "open"
    /\ hpc[w] \in {"dial", "announced", "recv"}
    /\ wsState' = [wsState EXCEPT ![w] = "gone"]
    /\ UNCHANGED <<now, client, server, task, cid_sid_map, sid_cid_map, bState, pump,
                   hpc, hcid, hsid, hsent, todo, swtodo, swpc, swStart, nextSid, nextB, nframes,
                   clientFrames, backendFrames, lim, torn, notified, jobVars, recvd, mapVars, dialVars, lockVars>>

\* receive_text raises on a websocket that is gone or closed; finally: disconnect
receive_failed(w) ==
    /\ hpc[w] = "recv"
    /\ wsState[w] # "open"
    /\ disconnect(w, CurSt, "done")
    /\ UNCHANGED <<now, hcid, hsid, hsent, swtodo, swpc, swStart, nextSid, nextB, nframes, clientFrames,
                   backendFrames, lim, jobVars, recvd, mapVars, dialVars, lockVars>>


\* a handler resumes the pops it is awaiting
handler_resume(w) ==
    /\ todo[w] # <<>>
    /\ LET r == Run(CurSt, todo[w])
       IN  /\ SetSt(r.st)
           /\ todo' = [todo EXCEPT ![w] = r.todo]
           /\ hpc' = [hpc EXCEPT ![w] = IF r.err THEN "failed"
                                        ELSE IF r.todo # <<>> THEN @
                                        ELSE IF @ = "disc_accept" THEN "announced"
                                        ELSE "done"]
    /\ UNCHANGED <<now, hcid, hsid, hsent, swtodo, swpc, swStart, nextSid, nextB, nframes,
                   clientFrames, backendFrames, lim, jobVars, recvd, mapVars, dialVars, lockVars>>

\* ------------------------------------------ the pump (backend_to_client)
\* the engine sends a binary frame: recv, send_bytes(message[8:]); a failing
\* send is caught like a failing recv and starts the reconnect loop
backend_binary(sid) ==
    /\ pump[sid].st = "recv"
    /\ bState[pump[sid].b] = "open"
    /\ nframes < lim.frames
    /\ nframes' = nframes + 1
    /\ LET message == BinaryFrame(nframes + 1)
       IN  /\ recvd' = [recvd EXCEPT ![sid] =
                           Append(@, [b |-> pump[sid].b, kind |-> message.kind,
                                      body |-> message.body])]
           /\ IF wsState[pump[sid].ws] = "open"
              THEN /\ clientFrames' = [clientFrames EXCEPT ![pump[sid].ws] =
                                          Append(@, <<"bin", skip_header(message.body)>>)]
                   /\ pump' = [pump EXCEPT ![sid].backoff = 1]
              ELSE /\ pump' = [pump EXCEPT ![sid].st = "dial"]
                   /\ UNCHANGED clientFrames
    /\ UNCHANGED <<now, client, server, task, cid_sid_map, sid_cid_map, wsState, bState,
                   hpc, hcid, hsid, hsent, todo, swtodo, swpc, swStart, nextSid, nextB,
                   backendFrames, lim, torn, notified, jobVars, mapVars, dialVars, lockVars>>

\* the engine sends a text frame: recv, and nothing is forwarded
backend_text(sid) ==
    /\ pump[sid].st = "recv"
    /\ bState[pump[sid].b] = "open"
    /\ nframes < lim.frames
    /\ nframes' = nframes + 1
    /\ LET message == TextFrame(nframes + 1)
       IN  recvd' = [recvd EXCEPT ![sid] =
                        Append(@, [b |-> pump[sid].b, kind |-> message.kind,
                                   body |-> message.body])]
    /\ pump' = [pump EXCEPT ![sid].backoff = 1]
    /\ UNCHANGED <<now, client, server, task, cid_sid_map, sid_cid_map, wsState, bState,
                   hpc, hcid, hsid, hsent, todo, swtodo, swpc, swStart, nextSid, nextB,
                   clientFrames, backendFrames, lim, torn, notified, jobVars, mapVars, dialVars, lockVars>>

\* the backend connection is lost
backend_dies(b) ==
    /\ bState[b] = "open"
    /\ bState' = [bState EXCEPT ![b] = "closed"]
    /\ UNCHANGED <<now, client, server, task, cid_sid_map, sid_cid_map, wsState, pump,
                   hpc, hcid, hsid, hsent, todo, swtodo, swpc, swStart, nextSid, nextB, nframes,
                   clientFrames, backendFrames, lim, torn, notified, jobVars, recvd, mapVars, dialVars, lockVars>>

\* recv raises on the closed socket: except Exception, enter the reconnect
\* loop: sleep for backoff seconds, then connect_to_backend(sid)
pump_recv_failed(sid) ==
    /\ pump[sid].st = "recv"
    /\ bState[pump[sid].b] = "closed"
    /\ pump' = [pump EXCEPT ![sid].st = "dial"]
    /\ UNCHANGED <<now, client, server, task, cid_sid_map, sid_cid_map, wsState, bState,
                   hpc, hcid, hsid, hsent, todo, swtodo, swpc, swStart, nextSid, nextB, nframes,
                   clientFrames, backendFrames, lim, torn, notified, jobVars, recvd, mapVars, dialVars, lockVars>>

\* pump_reconnected with the registration of the new socket left out
pump_reconnected_unregistered(sid) ==
    /\ pump[sid].st = "dial"
    /\ nextB < lim.backends
    /\ LET b == nextB + 1
       IN  /\ nextB' = b
           /\ bState' = [bState EXCEPT ![pump[sid].b] = "closed", ![b] = "open"]
           /\ pump' = [pump EXCEPT ![sid] = [@ EXCEPT !.st = "recv", !.b = b, !.backoff = 1]]
    /\ UNCHANGED <<now, client, server, task, cid_sid_map, sid_cid_map, wsState,
                   hpc, hcid, hsid, hsent, todo, swtodo, swpc, swStart, nextSid, nframes,
                   clientFrames, backendFrames, lim, torn, notified, jobVars, recvd, mapVars, dialVars, lockVars>>

\* the engine reattaches the session (and closes the socket it still held
\* for that clientId); the pump registers the new socket under the same sid
pump_reconnected(sid) ==
    /\ pump[sid].st = "dial"
    /\ nextB < lim.backends
    /\ LET b == nextB + 1
       IN  /\ nextB' = b
           /\ bState' = [bState EXCEPT ![pump[sid].b] = "closed", ![b] = "open"]
           /\ pump' = [pump EXCEPT ![sid] = [@ EXCEPT !.st = "recv", !.b = b, !.backoff = 1]]
           /\ server' = TM_set(server, sid, b, IdleTimeout)
    /\ UNCHANGED <<now, client, task, cid_sid_map, sid_cid_map, wsState,
                   hpc, hcid, hsid, hsent, todo, swtodo, swpc, swStart, nextSid, nframes,
                   clientFrames, backendFrames, lim, torn, notified, jobVars, recvd, mapVars, dialVars, lockVars>>

Min(a, b) == IF a <= b THEN a ELSE b

\* pump_reconnect_failed with a retry budget: the MAX_RETRIES-th failure in
\* a row ends the pump with an error frame and closes the client
pump_reconnect_gives_up(sid) ==
    /\ pump[sid].st = "dial"
    /\ pump[sid].backoff < lim.backoff
    /\ IF 2 * pump[sid].backoff >= 2 ^ MAX_RETRIES
       THEN /\ pump' = [pump EXCEPT ![sid].st = "gave_up"]
            /\ clientFrames' = [clientFrames EXCEPT ![pump[sid].ws] =
                                   Append(@, <<"error", sid>>)]
            /\ wsState' = [wsState EXCEPT ![pump[sid].ws] = "closed"]
       ELSE /\ pump' = [pump EXCEPT ![sid] = [@ EXCEPT !.backoff = Min(@ * 2, max_backoff)]]
            /\ UNCHANGED <<clientFrames, wsState>>
    /\ UNCHANGED <<now, client, server, task, cid_sid_map, sid_cid_map, bState,
                   hpc, hcid, hsid, hsent, todo, swtodo, swpc, swStart, nextSid, nextB, nframes,
                   backendFrames, lim, torn, notified, jobVars, recvd, mapVars, dialVars, lockVars>>

\* pump_reconnect_failed with the delay doubled without a cap
pump_reconnect_failed_uncapped(sid) ==
    /\ pump[sid].st = "dial"
    /\ pump[sid].backoff < lim.backoff
    /\ pump' = [pump EXCEPT ![sid] = [@ EXCEPT !.backoff = @ * 2]]
    /\ UNCHANGED <<now, client, server, task, cid_sid_map, sid_cid_map, wsState, bState,
                   hpc, hcid, hsid, hsent, todo, swtodo, swpc, swStart, nextSid, nextB, nframes,
                   clientFrames, backendFrames, lim, torn, notified, jobVars, recvd, mapVars, dialVars, lockVars>>

\* connect_to_backend raised: backoff = min(backoff * 2, max_backoff), sleep
\* and dial again
pump_reconnect_failed(sid) ==
    /\ pump[sid].st = "dial"
    /\ pump[sid].backoff < lim.backoff
    /\ pump' = [pump EXCEPT ![sid] = [@ EXCEPT !.backoff = Min(@ * 2, max_backoff)]]
    /\ UNCHANGED <<now, client, server, task, cid_sid_map, sid_cid_map, wsState, bState,
                   hpc, hcid, hsid, hsent, todo, swtodo, swpc, swStart, nextSid, nextB, nframes,
                   clientFrames, backendFrames, lim, torn, notified, jobVars, recvd, mapVars, dialVars, lockVars>>

\* ------------------------------------------------------------- sweepers
MapOf(sw) == IF sw = "swC" THEN client ELSE IF sw = "swS" THEN server ELSE task
TimeoutOf(sw) == IF sw = "swT" THEN TaskIdleTimeout ELSE IdleTimeout
PopOf(sw) == IF sw = "swC" THEN "popC" ELSE IF sw = "swS" THEN "popS" ELSE "popT"

\* TimeoutMap.cleanup of one map: the scan under the lock, then pop(key) for
\* every expired key, up to the first suspension
cleanup(sw) ==
    /\ swpc[sw] = "run"
    /\ swtodo[sw] = <<>>
    /\ MapOf(sw).heap # <<>>
    /\ Head(MapOf(sw).heap)[1] <= now
    /\ LET m == MapOf(sw)
           sc == cleanup_scan(m.heap, m.ts, TimeoutOf(sw), <<>>)
           m1 == [m EXCEPT !.heap = sc.heap]
           st == IF sw = "swC" THEN [CurSt EXCEPT !.client = m1]
                 ELSE IF sw = "swS" THEN [CurSt EXCEPT !.server = m1]
                 ELSE [CurSt EXCEPT !.task = m1]
           ops == [i \in 1 .. Len(sc.expired) |-> Op(PopOf(sw), sc.expired[i], TRUE)]
           r == Run(st, ops)
       IN  /\ SetSt(r.st)
           /\ swtodo' = [swtodo EXCEPT ![sw] = r.todo]
           /\ swpc' = [swpc EXCEPT ![sw] = IF r.err THEN "dead" ELSE @]
           /\ swStart' = [swStart EXCEPT ![sw] = now]
    /\ UNCHANGED <<now, hpc, hcid, hsid, hsent, todo, nextSid, nextB, nframes,
                   clientFrames, backendFrames, lim, jobVars, recvd, mapVars, dialVars, lockVars>>

\* a sweeper resumes the pops it is awaiting
cleanup_resume(sw) ==
    /\ swtodo[sw] # <<>>
    /\ LET r == Run(CurSt, swtodo[sw])
       IN  /\ SetSt(r.st)
           /\ swtodo' = [swtodo EXCEPT ![sw] = r.todo]
           /\ swpc' = [swpc EXCEPT ![sw] = IF r.err THEN "dead" ELSE @]
    /\ UNCHANGED <<now, hpc, hcid, hsid, hsent, todo, swStart, nextSid, nextB, nframes,
                   clientFrames, backendFrames, lim, jobVars, recvd, mapVars, dialVars, lockVars>>

\* time passes
Tick ==
    /\ now + lim.step <= lim.time
    /\ now' = now + lim.step
    /\ UNCHANGED <<client, server, task, cid_sid_map, sid_cid_map, wsState, bState, pump,
                   hpc, hcid, hsid, hsent, todo, swtodo, swpc, swStart, nextSid, nextB, nframes,
                   clientFrames, backendFrames, lim, torn, notified, jobVars, recvd, mapVars, dialVars, lockVars>>

\* The complete ConnectionManager, with one client.
Next ==
    \/ \E w \in W, cid \in CIDs : accept_client_connection(w, cid)
    \/ \E w \in W : accept_paired(w)
    \/ \E w \in W : accept_dial_failed(w)
    \/ \E w \in W : handle_client_connection(w)
    \/ \E w \in W : client_text(w)
    \/ \E w \in W : client_gone(w)
    \/ \E w \in W : receive_failed(w)
    \/ \E w \in W : handler_resume(w)
    \/ \E sid \in SIDs : backend_binary(sid)
    \/ \E sid \in SIDs : backend_text(sid)
    \/ \E b \in BIDs : backend_dies(b)
    \/ \E sid \in SIDs : pump_recv_failed(sid)
    \/ \E sid \in SIDs : pump_reconnected(sid)
    \/ \E sid \in SIDs : pump_reconnect_failed(sid)
    \/ \E sw \in Sweepers : cleanup(sw)
    \/ \E sw \in Sweepers : cleanup_resume(sw)
    \/ Tick

Init == InitWith([clients |-> 1, supplied |-> TRUE, backoff |-> max_backoff, backends |-> MaxBackend,
                  frames |-> MaxFrames, msgs |-> MaxClientMsgs, time |-> MaxTime,
                  token |-> AllValid, values |-> 1, raises |-> FALSE,
        step |-> TickStep, callbacks |-> 0])

Spec == Init /\ [][Next]_vars

\* Several clients at once, in front of a backend that stays up: the
\* handlers, the sweepers and the clock.
NextTwo ==
    \/ \E w \in W, cid \in CIDs : accept_client_connection(w, cid)
    \/ \E w \in W : accept_paired(w)
    \/ \E w \in W : accept_dial_failed(w)
    \/ \E w \in W : handle_client_connection(w)
    \/ \E w \in W : client_text(w)
    \/ \E w \in W : client_gone(w)
    \/ \E w \in W : receive_failed(w)
    \/ \E w \in W : handler_resume(w)
    \/ \E sw \in Sweepers : cleanup(sw)
    \/ \E sw \in Sweepers : cleanup_resume(sw)
    \/ Tick

InitTwo == InitWith([clients |-> NumClients, supplied |-> TRUE, backoff |-> 1, backends |-> MaxSid,
                     frames |-> 0, msgs |-> MaxClientMsgs, time |-> MaxTime,
                     token |-> AllValid, values |-> 1, raises |-> FALSE,
        step |-> TickStep, callbacks |-> 0])

SpecTwo == InitTwo /\ [][NextTwo]_vars

\* The same with gateway-minted connection ids only and a longer clock, for
\* the idle sweeps.
InitIdle == InitWith([clients |-> NumClients, supplied |-> FALSE, backoff |-> 1,
                      backends |-> MaxSid, frames |-> 0, msgs |-> MaxClientMsgs,
                      time |-> MaxIdleTime, token |-> AllValid, values |-> 1,
                      raises |-> FALSE,
        step |-> TickStep, callbacks |-> 0])

SpecIdle == InitIdle /\ [][NextTwo]_vars


\* ------------------------------------- jobs: submitter and status listener
\* what the job actions leave alone of the ConnectionManager
connRest == <<now, server, task, cid_sid_map, sid_cid_map, wsState, bState, pump, hpc,
              hcid, hsid, hsent, todo, swtodo, swpc, swStart, nextSid, nextB, nframes,
              backendFrames, lim, torn, notified, recvd, mapVars, dialVars, lockVars>>

\* message types of the status socket; "progress" stands for the types the
\* listener does not handle
EventTypes == {"execution_start", "executing", "execution_success", "execution_error",
               "execution_interrupted", "execution_cached", "progress"}

\* the status the listener assigns for a message type ("" for: unknown type)
StatusOf_start_completes(type) ==
    CASE type \in {"execution_start", "execution_success", "execution_cached"} -> "completed"
      [] type = "executing" -> "running"
      [] type = "execution_error" -> "failed"
      [] type = "execution_interrupted" -> "interrupted"
      [] OTHER -> ""

\* StatusOf with execution_cached taken for a sign that the job is running
StatusOf_cached_runs(type) ==
    CASE type \in {"execution_start", "executing", "execution_cached"} -> "running"
      [] type = "execution_success" -> "completed"
      [] type = "execution_error" -> "failed"
      [] type = "execution_interrupted" -> "interrupted"
      [] OTHER -> ""

StatusOf(type) ==
    CASE type \in {"execution_start", "executing"} -> "running"
      [] type = "execution_success" -> "completed"
      [] type = "execution_error" -> "failed"
      [] type = "execution_interrupted" -> "interrupted"
      [] type = "execution_cached" -> "completed"
      [] OTHER -> ""

Terminal == {"completed", "failed", "interrupted"}

\* send_client_message(cid, text): no client entry, a warning and nothing
\* else; otherwise _update_activity and send_text, which raises on a
\* websocket that is closed or gone
send_client_message(cid, frame) ==
    LET ws == TM_get(client, cid)
    IN  IF ws = NoneVal
        THEN [client |-> client, frames |-> clientFrames, ok |-> TRUE, sent |-> FALSE]
        ELSE IF wsState[ws] = "open"
        THEN [client |-> TM_refresh(client, cid, IdleTimeout),
              frames |-> [clientFrames EXCEPT ![ws] = Append(@, frame)],
              ok |-> TRUE, sent |-> TRUE]
        ELSE [client |-> TM_refresh(client, cid, IdleTimeout),
              frames |-> clientFrames, ok |-> FALSE, sent |-> FALSE]

\* status_callback of request r: the workflow_status frame with the
\* request_id of the closure
status_callback(r, status) ==
    send_client_message(rcid[r], <<"workflow_status", r, status>>)

\* the inputs a caller can send: a value for the external input node
CallerInputs == {<<[node_id |-> "in1", value |-> v]>> : v \in lim.values}

\* queue_workflow up to the POST of run_workflow: 404 for a cid without a sid;
\* otherwise the descriptor of the cache gets the inputs of the request and
\* is rewritten by run_workflow, which serialises its workflow_json
queue_workflow(r, cid, inputs) ==
    /\ rpc[r] = "idle"
    /\ IF r = 1 THEN TRUE ELSE rpc[r - 1] # "idle"
    /\ IF cid \in DOMAIN cid_sid_map
       THEN LET sid == cid_sid_map[cid]
                d == run_workflow_rewrite([descriptor EXCEPT !.inputs = inputs], sid, r)
            IN  /\ rpc' = [rpc EXCEPT ![r] = "posting"]
                /\ rcid' = [rcid EXCEPT ![r] = cid]
                /\ rsid' = [rsid EXCEPT ![r] = sid]
                /\ descriptor' = d
                /\ posted' = With(posted, r, [inputs |-> inputs, prompt |-> d.nodes])
       ELSE /\ rpc' = [rpc EXCEPT ![r] = "rejected"]
            /\ UNCHANGED <<rcid, rsid, descriptor, posted>>
    /\ UNCHANGED <<client, clientFrames, connRest, rprompt, nextPrompt, prompt_to_job,
                   prompt_to_callback, request_id_to_prompt, statusq, lpc, lfails, attempt, lruns,
                   nevents, handled>>

\* the engine queues the prompt and answers with a fresh prompt_id
engine_accepts(r) ==
    /\ rpc[r] = "posting"
    /\ nextPrompt' = nextPrompt + 1
    /\ rprompt' = [rprompt EXCEPT ![r] = nextPrompt + 1]
    /\ rpc' = [rpc EXCEPT ![r] = "accepted"]
    /\ UNCHANGED <<client, clientFrames, connRest, descriptor, posted, rcid, rsid, prompt_to_job,
                   prompt_to_callback, request_id_to_prompt, statusq, lpc, lfails, attempt, lruns,
                   nevents, handled>>

\* post_failed with the callback registered before the answer is examined
post_failed_registered(r) ==
    /\ rpc[r] = "posting"
    /\ rpc' = [rpc EXCEPT ![r] = "failed"]
    /\ prompt_to_callback' = TM_set(prompt_to_callback, NoneVal, r, JobIdleTimeout)
    /\ UNCHANGED <<client, clientFrames, connRest, descriptor, posted, rcid, rsid, rprompt,
                   nextPrompt, prompt_to_job, request_id_to_prompt, statusq, lpc, lfails,
                   attempt, lruns, nevents, handled>>

\* the POST fails, or answers without a prompt_id: run_workflow raises
post_failed(r) ==
    /\ rpc[r] = "posting"
    /\ rpc' = [rpc EXCEPT ![r] = "failed"]
    /\ UNCHANGED <<client, clientFrames, connRest, descriptor, posted, rcid, rsid, rprompt, nextPrompt,
                   prompt_to_job, prompt_to_callback, request_id_to_prompt, statusq, lpc, lfails,
                   attempt, lruns, nevents, handled>>

\* run_workflow_registered with the request_id left out of the maps
run_workflow_registered_unindexed(r) ==
    /\ rpc[r] = "accepted"
    /\ LET pid == rprompt[r]
           new_task == [prompt_id |-> pid, request_id |-> r, image_ws_sid |-> rsid[r],
                        executing_node_id |-> NoneVal, status |-> "queued"]
           cb == status_callback(r, "queued")
       IN  /\ prompt_to_job' = TM_set(prompt_to_job, pid, new_task, JobIdleTimeout)
           /\ prompt_to_callback' = TM_set(prompt_to_callback, pid, r, JobIdleTimeout)
           /\ client' = cb.client
           /\ clientFrames' = cb.frames
           /\ rpc' = [rpc EXCEPT ![r] = IF cb.ok THEN "sleeping" ELSE "failed"]
    /\ UNCHANGED <<connRest, descriptor, posted, rcid, rsid, rprompt, nextPrompt, statusq, lpc,
                   lfails, attempt, lruns, nevents, handled, request_id_to_prompt>>

\* run_workflow reads the answer: the job is registered in the three maps
\* and status_callback(new_task) sends "queued"; a raising callback leaves
\* run_workflow
run_workflow_registered(r) ==
    /\ rpc[r] = "accepted"
    /\ LET pid == rprompt[r]
           new_task == [prompt_id |-> pid, request_id |-> r, image_ws_sid |-> rsid[r],
                        executing_node_id |-> NoneVal, status |-> "queued"]
           cb == status_callback(r, "queued")
       IN  /\ prompt_to_job' = TM_set(prompt_to_job, pid, new_task, JobIdleTimeout)
           /\ prompt_to_callback' = TM_set(prompt_to_callback, pid, r, JobIdleTimeout)
           /\ request_id_to_prompt' = TM_set(request_id_to_prompt, r, pid, JobIdleTimeout)
           /\ client' = cb.client
           /\ clientFrames' = cb.frames
           /\ rpc' = [rpc EXCEPT ![r] = IF cb.ok THEN "sleeping" ELSE "failed"]
    /\ UNCHANGED <<connRest, descriptor, posted, rcid, rsid, rprompt, nextPrompt, statusq, lpc, lfails,
                   attempt, lruns, nevents, handled>>

\* the send of the callback is through: run_workflow returns and the caller
\* gets its request_id
run_workflow_returns(r) ==
    /\ rpc[r] = "sleeping"
    /\ rpc' = [rpc EXCEPT ![r] = "returned"]
    /\ UNCHANGED <<client, clientFrames, connRest, descriptor, posted, rcid, rsid, rprompt, nextPrompt,
                   prompt_to_job, prompt_to_callback, request_id_to_prompt, statusq, lpc, lfails,
                   attempt, lruns, nevents, handled>>

\* the engine sends a message about a prompt it has queued (node is the
\* data.node of an executing message)
engine_event(type, pid) ==
    /\ lpc = "recv"
    /\ nevents < MaxEvents
    /\ pid \in 1 .. nextPrompt
    /\ nevents' = nevents + 1
    /\ statusq' = Append(statusq, [type |-> type, prompt_id |-> pid])
    /\ UNCHANGED <<client, clientFrames, connRest, descriptor, posted, rpc, rcid, rsid, rprompt, nextPrompt,
                   prompt_to_job, prompt_to_callback, request_id_to_prompt, lpc, lfails, attempt, lruns,
                   handled>>

\* the engine sends a message without a prompt_id (its queue status)
engine_status ==
    /\ lpc = "recv"
    /\ nevents < MaxEvents
    /\ nevents' = nevents + 1
    /\ statusq' = Append(statusq, [type |-> "status", prompt_id |-> NoneVal])
    /\ UNCHANGED <<client, clientFrames, connRest, descriptor, posted, rpc, rcid, rsid, rprompt, nextPrompt,
                   prompt_to_job, prompt_to_callback, request_id_to_prompt, lpc, lfails, attempt, lruns,
                   handled>>

\* the status socket is connected and the handshake names the listener's sid
listener_connected ==
    /\ lpc = "connecting"
    /\ lpc' = "recv"
    /\ UNCHANGED <<client, clientFrames, connRest, descriptor, posted, rpc, rcid, rsid, rprompt, nextPrompt,
                   prompt_to_job, prompt_to_callback, request_id_to_prompt, statusq,
                   lfails, attempt, lruns, nevents, handled>>

\* "for attempt in range(1, MAX_RETRIES + 1)": the next turn of the loop, or
\* ConnectionError after the last one
NextAttempt ==
    /\ statusq' = <<>>
    /\ lruns' = Append(lruns, Len(handled'))
    /\ IF attempt < MAX_RETRIES
       THEN lpc' = "connecting" /\ attempt' = attempt + 1
       ELSE lpc' = "dead" /\ attempt' = attempt

\* the connect or the handshake fails
listener_connect_failed ==
    /\ lpc = "connecting"
    /\ lfails < MaxListenerFailures
    /\ lfails' = lfails + 1
    /\ UNCHANGED <<client, clientFrames, connRest, descriptor, posted, rpc, rcid, rsid, rprompt, nextPrompt,
                   prompt_to_job, prompt_to_callback, request_id_to_prompt, nevents,
                   handled>>
    /\ NextAttempt

\* recv raises on the status socket
listener_socket_lost ==
    /\ lpc = "recv"
    /\ lfails < MaxListenerFailures
    /\ lfails' = lfails + 1
    /\ UNCHANGED <<client, clientFrames, connRest, descriptor, posted, rpc, rcid, rsid, rprompt, nextPrompt,
                   prompt_to_job, prompt_to_callback, request_id_to_prompt, nevents,
                   handled>>
    /\ NextAttempt

\* an entry of the history: what became of a message
Handled(e, r, out) == [type |-> e.type, prompt_id |-> e.prompt_id, request_id |-> r,
                       out |-> out]

\* one turn of the receive loop of _monitor_status_socket.  pops says whether
\* the maps are cleared after a terminal status.
listener_turn(pops) ==
    /\ lpc = "recv"
    /\ statusq # <<>>
    /\ LET e == Head(statusq)
           pid == e.prompt_id
           jobs == TM_refresh(prompt_to_job, pid, JobIdleTimeout)
           wf_status == TM_get(jobs, pid)
           callback == TM_get(prompt_to_callback, pid)
       IN  IF pid = NoneVal
           THEN /\ statusq' = Tail(statusq)
                /\ handled' = Append(handled, Handled(e, NoneVal, "no_prompt"))
                /\ UNCHANGED <<client, clientFrames, prompt_to_job, prompt_to_callback,
                               request_id_to_prompt, lpc, attempt, lruns>>
           ELSE IF pid \notin DOMAIN jobs.data \/ pid \notin DOMAIN prompt_to_callback.data
           THEN /\ statusq' = Tail(statusq)
                /\ handled' = Append(handled, Handled(e, NoneVal, "unknown_job"))
                /\ prompt_to_job' = jobs
                /\ UNCHANGED <<client, clientFrames, prompt_to_callback,
                               request_id_to_prompt, lpc, attempt, lruns>>
           ELSE IF StatusOf(e.type) = ""
           THEN /\ statusq' = Tail(statusq)
                /\ handled' = Append(handled, Handled(e, wf_status.request_id, "unknown_type"))
                /\ prompt_to_job' = jobs
                /\ UNCHANGED <<client, clientFrames, prompt_to_callback,
                               request_id_to_prompt, lpc, attempt, lruns>>
           ELSE LET status == StatusOf(e.type)
                    job == [wf_status EXCEPT
                              !.status = status,
                              !.executing_node_id = IF e.type = "executing" THEN 1 ELSE @]
                    jobs1 == [jobs EXCEPT !.data[pid] = job]
                    cb == status_callback(callback, status)
                IN  /\ client' = cb.client
                    /\ clientFrames' = cb.frames
                    /\ handled' = Append(handled,
                          Handled(e, job.request_id,
                                  IF ~cb.ok THEN "raised"
                                  ELSE IF cb.sent THEN "sent" ELSE "no_client"))
                    /\ IF ~cb.ok
                       THEN /\ prompt_to_job' = jobs1
                            /\ NextAttempt
                            /\ UNCHANGED <<prompt_to_callback, request_id_to_prompt>>
                       ELSE /\ statusq' = Tail(statusq)
                            /\ UNCHANGED <<lpc, attempt, lruns>>
                            /\ IF pops /\ status \in Terminal
                               THEN /\ prompt_to_job' = TM_remove(jobs1, pid)
                                    /\ prompt_to_callback' = TM_remove(prompt_to_callback, pid)
                                    /\ request_id_to_prompt' =
                                          TM_remove(request_id_to_prompt, job.request_id)
                               ELSE /\ prompt_to_job' = jobs1
                                    /\ UNCHANGED <<prompt_to_callback, request_id_to_prompt>>
    /\ UNCHANGED <<connRest, descriptor, posted, rpc, rcid, rsid, rprompt, nextPrompt, lfails, nevents>>

\* listener_handle with the clearing of the maps left out
listener_handle_keeps_job == listener_turn(FALSE)

\* the listener reads a message and handles it
listener_handle == listener_turn(TRUE)

\* One client and its jobs: the handlers of the ConnectionManager, the queue
\* requests, the engine and the status listener on a status socket that
\* connects and stays up (the listener leaves it only when a callback raises).
NextJobs ==
    \/ \E w \in W, cid \in CIDs : accept_client_connection(w, cid)
    \/ \E w \in W : accept_paired(w)
    \/ \E w \in W : handle_client_connection(w)
    \/ \E w \in W : client_gone(w)
    \/ \E w \in W : receive_failed(w)
    \/ \E w \in W : handler_resume(w)
    \/ \E r \in Reqs, cid \in CIDs, inputs \in CallerInputs : queue_workflow(r, cid, inputs)
    \/ \E r \in Reqs : engine_accepts(r)
    \/ \E r \in Reqs : post_failed(r)
    \/ \E r \in Reqs : run_workflow_registered(r)
    \/ \E r \in Reqs : run_workflow_returns(r)
    \/ \E type \in EventTypes, pid \in Prompts : engine_event(type, pid)
    \/ engine_status
    \/ listener_connected
    \/ listener_handle

InitJobs == InitWith([clients |-> 1, supplied |-> FALSE, backoff |-> 1, backends |-> 1,
                      frames |-> 0, msgs |-> 0, time |-> 0,
                      token |-> AllValid, values |-> 1, raises |-> FALSE,
        step |-> TickStep, callbacks |-> 0])

SpecJobs == InitJobs /\ [][NextJobs]_vars

\* ----------------------------------------------------- the pump, at length
\* One client and its pump in front of an engine that sends more frames.
NextPump ==
    \/ \E w \in W, cid \in CIDs : accept_client_connection(w, cid)
    \/ \E w \in W : accept_paired(w)
    \/ \E w \in W : handle_client_connection(w)
    \/ \E w \in W : client_gone(w)
    \/ \E w \in W : receive_failed(w)
    \/ \E w \in W : handler_resume(w)
    \/ \E sid \in SIDs : backend_binary(sid)
    \/ \E sid \in SIDs : backend_text(sid)
    \/ \E b \in BIDs : backend_dies(b)
    \/ \E sid \in SIDs : pump_recv_failed(sid)
    \/ \E sid \in SIDs : pump_reconnected(sid)

InitPump == InitWith([clients |-> 1, supplied |-> FALSE, backoff |-> 1, backends |-> MaxBackend,
                      frames |-> MaxPumpFrames, msgs |-> 0, time |-> 0,
                      token |-> AllValid, values |-> 1, raises |-> FALSE,
        step |-> TickStep, callbacks |-> 0])

SpecPump == InitPump /\ [][NextPump]_vars

\* ---------------------------------------------------------- /ws/register
\* ws_register: accept_client_connection(websocket), without a cid.  The
\* router is included without dependencies and the endpoint declares none
\* that reads the token header, so the token of the handshake plays no part.
ws_register(w) == accept_client_connection(w, w)

\* Clients that present any token, or none.
NextAuth ==
    \/ \E w \in W : ws_register(w)
    \/ \E w \in W : accept_paired(w)
    \/ \E w \in W : accept_dial_failed(w)
    \/ \E w \in W : handle_client_connection(w)
    \/ \E w \in W : client_text(w)
    \/ \E w \in W : client_gone(w)
    \/ \E w \in W : receive_failed(w)
    \/ \E w \in W : handler_resume(w)

InitAuth ==
    \E t \in [W -> Tokens] :
        InitWith([clients |-> NumClients, supplied |-> FALSE, backoff |-> 1,
                  backends |-> MaxSid, frames |-> 0, msgs |-> MaxClientMsgs, time |-> 0,
                  token |-> t, values |-> 1, raises |-> FALSE,
        step |-> TickStep, callbacks |-> 0])

SpecAuth == InitAuth /\ [][NextAuth]_vars

\* ------------------------------------------------- submits and descriptors
\* Clients and queue requests with inputs of the callers' choice, up to the
\* answer of the engine.
NextFlow ==
    \/ \E w \in W, cid \in CIDs : accept_client_connection(w, cid)
    \/ \E w \in W : accept_paired(w)
    \/ \E r \in Reqs, cid \in CIDs, inputs \in CallerInputs : queue_workflow(r, cid, inputs)
    \/ \E r \in Reqs : engine_accepts(r)
    \/ \E r \in Reqs : post_failed(r)

InitFlow == InitWith([clients |-> NumClients, supplied |-> FALSE, backoff |-> 1,
                      backends |-> MaxSid, frames |-> 0, msgs |-> 0, time |-> 0,
                      token |-> AllValid, values |-> MaxValue, raises |-> FALSE,
        step |-> TickStep, callbacks |-> 0])

SpecFlow == InitFlow /\ [][NextFlow]_vars

\* ------------------------------------------------- a TimeoutMap on its own
\* TimeoutMap(idle_timeout, on_evict) used by a caller directly: set, refresh
\* and pop calls, its run_cleanup task and the clock.  on_evict is the
\* caller's coroutine: it suspends once, then returns or raises.
MapKeys == 1 .. MaxMapKey
MapValues == 0 .. MaxMapValue

\* what the map leaves alone
gatewayVars == <<client, server, task, cid_sid_map, sid_cid_map, wsState, bState, pump,
                 hpc, hcid, hsid, hsent, todo, swtodo, swpc, swStart, nextSid, nextB,
                 nframes, clientFrames, backendFrames, lim, torn, notified, recvd, jobVars, dialVars, lockVars>>

\* the truth value of item in "if self._evict_callback and item": None is
\* false, and so is a stored 0
truthy(item) == item # NoneVal /\ item # 0

\* TimeoutMap.pop(key) up to the await of the callback
pop(m, key) ==
    LET item == TM_get(m, key)
    IN  [map |-> TM_remove(m, key), item |-> item, calls |-> truthy(item)]

\* the instances that have left the map, after pop(key) on m
Removed(rem, m, key) ==
    IF key \in DOMAIN m.data THEN Append(rem, <<key, m.data[key]>>) ELSE rem

map_set(k, v) ==
    /\ mops < MaxMapOps
    /\ mops' = mops + 1
    /\ imap' = TM_set(imap, k, v, IdleTimeout)
    /\ UNCHANGED <<now, msweep, mpop, removed, evicts, gatewayVars>>

map_refresh(k) ==
    /\ mops < MaxMapOps
    /\ mops' = mops + 1
    /\ imap' = TM_refresh(imap, k, IdleTimeout)
    /\ UNCHANGED <<now, msweep, mpop, removed, evicts, gatewayVars>>

\* the caller's pop(k), up to the callback's suspension
map_pop(k) ==
    /\ mpop = "idle"
    /\ mops < MaxMapOps
    /\ mops' = mops + 1
    /\ LET p == pop(imap, k)
       IN  /\ imap' = p.map
           /\ removed' = Removed(removed, imap, k)
           /\ evicts' = IF p.calls THEN Append(evicts, <<k, p.item>>) ELSE evicts
           /\ mpop' = IF p.calls THEN "evicting" ELSE "idle"
    /\ UNCHANGED <<now, msweep, gatewayVars>>

\* on_evict ends, with or without an error, and pop ends with it
map_pop_returns ==
    /\ mpop = "evicting"
    /\ mpop' = "idle"
    /\ UNCHANGED <<now, imap, mops, msweep, removed, evicts, gatewayVars>>

\* "for key in expired_keys: await self.pop(key)", up to the next suspension
RECURSIVE sweep_pops(_, _, _, _)
sweep_pops(m, keys, rem, ev) ==
    IF keys = <<>>
    THEN [map |-> m, keys |-> <<>>, removed |-> rem, evicts |-> ev, pc |-> "idle"]
    ELSE LET k == Head(keys)
             p == pop(m, k)
         IN  IF p.calls
             THEN [map |-> p.map, keys |-> Tail(keys), removed |-> Removed(rem, m, k),
                   evicts |-> Append(ev, <<k, p.item>>), pc |-> "evicting"]
             ELSE sweep_pops(p.map, Tail(keys), Removed(rem, m, k), ev)

\* a turn of run_cleanup: the scan of cleanup and its first pops
map_cleanup ==
    /\ msweep.pc = "idle"
    /\ imap.heap # <<>>
    /\ Head(imap.heap)[1] <= now
    /\ LET sc == cleanup_scan(imap.heap, imap.ts, IdleTimeout, <<>>)
           r == sweep_pops([imap EXCEPT !.heap = sc.heap], sc.expired, removed, evicts)
       IN  /\ imap' = r.map
           /\ msweep' = [pc |-> r.pc, keys |-> r.keys]
           /\ removed' = r.removed
           /\ evicts' = r.evicts
    /\ UNCHANGED <<now, mops, mpop, gatewayVars>>

\* on_evict returns to the sweep, which goes on with its expired_keys
map_sweep_resumes ==
    /\ msweep.pc = "evicting"
    /\ LET r == sweep_pops(imap, msweep.keys, removed, evicts)
       IN  /\ imap' = r.map
           /\ msweep' = [pc |-> r.pc, keys |-> r.keys]
           /\ removed' = r.removed
           /\ evicts' = r.evicts
    /\ UNCHANGED <<now, mops, mpop, gatewayVars>>

\* on_evict raises: the error leaves pop, cleanup and run_cleanup, whose task
\* ends; keys keeps the expired keys that were not popped
map_sweep_raises ==
    /\ msweep.pc = "evicting"
    /\ lim.raises
    /\ msweep' = [msweep EXCEPT !.pc = "dead"]
    /\ UNCHANGED <<now, imap, mops, mpop, removed, evicts, gatewayVars>>

NextMap ==
    \/ \E k \in MapKeys, v \in MapValues : map_set(k, v)
    \/ \E k \in MapKeys : map_refresh(k)
    \/ \E k \in MapKeys : map_pop(k)
    \/ map_pop_returns
    \/ map_cleanup
    \/ map_sweep_resumes
    \/ map_sweep_raises
    \/ Tick

InitMap == InitWith([clients |-> 0, supplied |-> FALSE, backoff |-> 1, backends |-> 0,
                     frames |-> 0, msgs |-> 0, time |-> MaxIdleTime,
                     token |-> AllValid, values |-> 1, raises |-> TRUE,
        step |-> TickStep, callbacks |-> 0])

SpecMap == InitMap /\ [][NextMap]_vars

\* ------------------------------------------------- jobs over a whole day
\* The job registry and the clock: a client, its queue requests, an engine
\* that queues the prompts and sends no event about them, and the sweepers
\* that run_connection_cleanup starts.  Nothing else runs on a timer: no
\* cleanup or run_cleanup is started for the three job maps.
NextTTL ==
    \/ \E w \in W, cid \in CIDs : accept_client_connection(w, cid)
    \/ \E w \in W : accept_paired(w)
    \/ \E r \in Reqs, cid \in CIDs, inputs \in CallerInputs : queue_workflow(r, cid, inputs)
    \/ \E r \in Reqs : engine_accepts(r)
    \/ \E r \in Reqs : run_workflow_registered(r)
    \/ \E r \in Reqs : run_workflow_returns(r)
    \/ \E sw \in Sweepers : cleanup(sw)
    \/ \E sw \in Sweepers : cleanup_resume(sw)
    \/ Tick

InitTTL == InitWith([clients |-> 1, supplied |-> FALSE, backoff |-> 1, backends |-> 1,
                     frames |-> 0, msgs |-> 0, time |-> MaxJobTime,
                     token |-> AllValid, values |-> 1, raises |-> FALSE,
        step |-> JobTickStep, callbacks |-> 0])

\* the clock advances and every task of the gateway gets its turn: a run
\* does not stop while a step is left to take
SpecTTL == InitTTL /\ [][NextTTL]_vars /\ WF_vars(NextTTL)

\* ------------------------------------ connect_to_backend, attempt by attempt
\* ComfyUIManager.connect_to_backend(sid) and the registration its caller in
\* proxy_comfyui_connection makes of the socket it returns.  The callers pass
\* None for a new pair and their own sid for a reconnect.
\* the first message of a socket: none (the socket is lost), text that is not
\* JSON, JSON without data, or JSON whose data.sid is h.sid (None: absent)
Handshakes ==
    [kind : {"lost", "not_json", "no_data"}, sid : {NoneVal}]
        \cup [kind : {"json"}, sid : SIDs \cup {NoneVal}]

\* what connect_to_backend leaves alone
dialRest == <<now, client, task, cid_sid_map, sid_cid_map, wsState, bState, pump,
              hpc, hcid, hsid, hsent, todo, swtodo, swpc, swStart, nextSid, nextB,
              nframes, clientFrames, backendFrames, lim, torn, notified, recvd, jobVars, mapVars,
              lockVars>>

\* "await backend_ws.close()" of an attempt that failed
backend_ws_close_skipped(socks, ws) == socks

backend_ws_close(socks, ws) ==
    IF ws = NoneVal THEN socks ELSE [socks EXCEPT ![ws].st = "closed"]

\* "for attempt in range(1, MAX_RETRIES + 1)": the next turn of the loop, or
\* the ConnectionError after the last one
retry(d) ==
    IF d.attempt < MAX_RETRIES
    THEN [d EXCEPT !.pc = "connect", !.attempt = @ + 1, !.backend_ws = NoneVal]
    ELSE [d EXCEPT !.pc = "raised", !.backend_ws = NoneVal]

\* the call: sid is None, or the sid of the pump that reconnects
connect_to_backend(sid) ==
    /\ dial.pc = "idle"
    /\ dial' = [pc |-> "connect", attempt |-> 1, want |-> sid, sid |-> sid,
                backend_ws |-> NoneVal]
    /\ UNCHANGED <<server, dsock, dialRest>>

\* websockets.connect(url) returns a socket; the url carries clientId when
\* sid is set
dial_connected ==
    /\ dial.pc = "connect"
    /\ dsock' = Append(dsock, [st |-> "open", clientId |-> dial.sid, sid |-> NoneVal])
    /\ dial' = [dial EXCEPT !.pc = "recv", !.backend_ws = Len(dsock) + 1]
    /\ UNCHANGED <<server, dialRest>>

\* websockets.connect raises: backend_ws is None, sleep, next attempt
dial_refused ==
    /\ dial.pc = "connect"
    /\ dial' = retry(dial)
    /\ UNCHANGED <<server, dsock, dialRest>>

\* recv returns the first message h, or raises because the socket is lost.
\* A sid in it is returned with the socket; a message without a sid sets sid
\* to None and closes the socket; a message that is not JSON or has no data
\* raises, and the handler closes the socket and sleeps.
dial_handshake(h) ==
    /\ dial.pc = "recv"
    /\ IF h.kind = "json" /\ h.sid # NoneVal
       THEN /\ dial' = [dial EXCEPT !.pc = "returned", !.sid = h.sid]
            /\ dsock' = [dsock EXCEPT ![dial.backend_ws].sid = h.sid]
       ELSE IF h.kind = "json"
       THEN /\ dial' = retry([dial EXCEPT !.sid = NoneVal])
            /\ dsock' = backend_ws_close(dsock, dial.backend_ws)
       ELSE /\ dial' = retry(dial)
            /\ dsock' = backend_ws_close(dsock, dial.backend_ws)
    /\ UNCHANGED <<server, dialRest>>

\* the caller takes (sid_new, backend_ws): it keeps its own sid when it has
\* one and sets the socket in _server_connections under it
register_backend ==
    /\ dial.pc = "returned"
    /\ LET sid == IF dial.want = NoneVal THEN dial.sid ELSE dial.want
       IN  server' = TM_set(server, sid, dial.backend_ws, IdleTimeout)
    /\ dial' = [dial EXCEPT !.pc = "registered"]
    /\ UNCHANGED <<dsock, dialRest>>

NextDial ==
    \/ \E sid \in SIDs \cup {NoneVal} : connect_to_backend(sid)
    \/ dial_connected
    \/ dial_refused
    \/ \E h \in Handshakes : dial_handshake(h)
    \/ register_backend

InitDial == InitWith([clients |-> 0, supplied |-> FALSE, backoff |-> 1, backends |-> 0,
                      frames |-> 0, msgs |-> 0, time |-> 0,
                      token |-> AllValid, values |-> 1, raises |-> FALSE,
        step |-> TickStep, callbacks |-> 0])

\* every connect and every read of a handshake comes to an end
SpecDial == InitDial /\ [][NextDial]_vars /\ WF_vars(NextDial)

\* ------------------------------------------------ teardown, lock by lock
\* The pops, sweeps and eviction callbacks of the three connection maps
\* with the asyncio.Lock of each map made explicit.  A thread is a coroutine:
\* the handler of a client in disconnect, or the run_cleanup task of a map.
\* It runs until it has to wait for a lock that is held or suspends in the
\* close of a websocket.
Maps == {"C", "S", "T"}      \* _client_connections, _server_connections, _sid_task_map
Free == [kind |-> "none", id |-> 0]
HandlerThread(w) == [kind |-> "handler", id |-> w]
SweeperNo(sw) == IF sw = "swC" THEN 1 ELSE IF sw = "swS" THEN 2 ELSE 3
SweeperThread(sw) == [kind |-> "sweeper", id |-> SweeperNo(sw)]
LThreads == {HandlerThread(w) : w \in W} \cup {SweeperThread(sw) : sw \in Sweepers}
MapTag(sw) == IF sw = "swC" THEN "C" ELSE IF sw = "swS" THEN "S" ELSE "T"

LOp(name, m, k) == [op |-> name, m |-> m, k |-> k]

\* the registry and the locks as one value
LockSt == [reg |-> CurSt, lk |-> lk, cbheld |-> cbheld]

MapIn(reg, m) == IF m = "C" THEN reg.client ELSE IF m = "S" THEN reg.server ELSE reg.task
MapSet(reg, m, v) ==
    IF m = "C" THEN [reg EXCEPT !.client = v]
    ELSE IF m = "S" THEN [reg EXCEPT !.server = v]
    ELSE [reg EXCEPT !.task = v]
MapTimeout(m) == IF m = "T" THEN TaskIdleTimeout ELSE IdleTimeout

\* pop with the callback awaited inside "async with self._lock"
pop_evict_inside_lock(m, k) == <<LOp("on_evict", m, k), LOp("release", m, NoneVal)>>

\* pop after item has been taken out of data: the lock is released, then
\* "if self._evict_callback and item: await self._evict_callback(key, item)"
pop_then_evict(m, k) == <<LOp("release", m, NoneVal), LOp("on_evict", m, k)>>

\* the body of the eviction callback of map m for key k and the value item
evict_callback(m, k, item) ==
    IF m = "C"
    THEN <<LOp("keys", "C", NoneVal), LOp("unlinkC", "C", k), LOp("closeC", "C", item)>>
            \o [i \in DOMAIN connection_close_callbacks("notifyC", k) |->
                   LOp("notifyC", "C", k)]
    ELSE IF m = "S"
    THEN <<LOp("keys", "S", NoneVal), LOp("unlinkS", "S", k), LOp("pop", "T", k),
           LOp("closeB", "S", item)>>
            \o [i \in DOMAIN connection_close_callbacks("notifyS", k) |->
                   LOp("notifyS", "S", k)]
    ELSE <<LOp("cancel", "T", k)>>

\* Runs the operations of thread t up to the point where it waits: for a
\* lock another coroutine holds (the operation stays at the head), or in the
\* close of a websocket.  item is the value the last pop took out of data.
RECURSIVE LRun(_, _, _, _)
LRun(st, ops, t, item) ==
    IF ops = <<>> THEN [st |-> st, todo |-> <<>>]
    ELSE
    LET o == Head(ops)
        rest == Tail(ops)
        reg == st.reg
    IN
    CASE o.op = "acquire" ->
           IF st.lk[o.m] = Free
           THEN LRun([st EXCEPT !.lk[o.m] = t], rest, t, item)
           ELSE [st |-> st, todo |-> ops]
      [] o.op = "release" ->
           LRun([st EXCEPT !.lk[o.m] = Free], rest, t, item)
      [] o.op = "keys" ->
           LRun(st, <<LOp("acquire", o.m, NoneVal), LOp("release", o.m, NoneVal)>> \o rest,
                t, item)
      [] o.op = "pop" ->
           LRun(st, <<LOp("acquire", o.m, NoneVal), LOp("take", o.m, o.k)>> \o rest, t, item)
      [] o.op = "take" ->
           IF o.k \in DOMAIN MapIn(reg, o.m).data
           THEN LRun([st EXCEPT !.reg = MapSet(reg, o.m, TM_remove(MapIn(reg, o.m), o.k))],
                     pop_then_evict(o.m, o.k) \o rest, t, MapIn(reg, o.m).data[o.k])
           ELSE LRun(st, <<LOp("release", o.m, NoneVal)>> \o rest, t, item)
      [] o.op = "on_evict" ->
           LRun([st EXCEPT !.cbheld = IF st.lk[o.m] # Free THEN @ \cup {o.m} ELSE @],
                evict_callback(o.m, o.k, item) \o rest, t, item)
      [] o.op = "unlinkC" ->
           IF o.k \notin DOMAIN reg.cs THEN LRun(st, rest, t, item)
           ELSE LET sid == reg.cs[o.k]
                    reg1 == [reg EXCEPT !.cs = Without(reg.cs, o.k)]
                IN  IF sid \notin DOMAIN reg.sc
                    THEN [st |-> [st EXCEPT !.reg = reg1], todo |-> <<>>]
                    ELSE LRun([st EXCEPT !.reg = [reg1 EXCEPT !.sc = Without(reg.sc, sid)]],
                              <<LOp("pop", "S", sid)>> \o rest, t, item)
      [] o.op = "unlinkS" ->
           IF o.k \notin DOMAIN reg.sc THEN LRun(st, rest, t, item)
           ELSE LET cid == reg.sc[o.k]
                    reg1 == [reg EXCEPT !.sc = Without(reg.sc, o.k)]
                IN  IF cid \notin DOMAIN reg.cs
                    THEN [st |-> [st EXCEPT !.reg = reg1], todo |-> <<>>]
                    ELSE LRun([st EXCEPT !.reg = [reg1 EXCEPT !.cs = Without(reg.cs, cid)]],
                              <<LOp("pop", "C", cid)>> \o rest, t, item)
      [] o.op = "cancel" ->
           LRun([st EXCEPT !.reg.pump = task_evict_callback(reg.pump, o.k)], rest, t, item)
      [] o.op = "closeC" ->
           IF reg.ws[o.k] # "gone"
           THEN [st |-> [st EXCEPT !.reg.ws[o.k] = "closed"], todo |-> rest]
           ELSE LRun(st, rest, t, item)
      [] o.op = "closeB" ->
           IF reg.bs[o.k] # "closed"
           THEN [st |-> [st EXCEPT !.reg.bs[o.k] = "closed"], todo |-> rest]
           ELSE LRun(st, rest, t, item)
      [] o.op \in {"notifyC", "notifyS"} ->
           LRun([st EXCEPT !.reg.notified =
                    Append(@, [callback |-> 1, arg |-> o.k,
                               names |-> IF o.op = "notifyC" THEN "cid" ELSE "sid"])],
                rest, t, item)
      [] o.op = "cleanup" ->
           LRun(st, <<LOp("acquire", o.m, NoneVal), LOp("scan", o.m, NoneVal)>> \o rest,
                t, item)
      [] o.op = "scan" ->
           LET m == MapIn(reg, o.m)
               sc == cleanup_scan(m.heap, m.ts, MapTimeout(o.m), <<>>)
           IN  LRun([st EXCEPT !.reg = MapSet(reg, o.m, [m EXCEPT !.heap = sc.heap])],
                    <<LOp("release", o.m, NoneVal)>>
                       \o [i \in 1 .. Len(sc.expired) |-> LOp("pop", o.m, sc.expired[i])]
                       \o rest,
                    t, item)

\* the registry and the locks after a run
SetLockSt(st) ==
    /\ SetSt(st.reg)
    /\ lk' = st.lk
    /\ cbheld' = st.cbheld

\* receive_text raises; finally: disconnect(cid), which is
\* _client_connections.pop(cid)
lock_disconnect(w) ==
    /\ hpc[w] = "recv"
    /\ wsState[w] # "open"
    /\ lth[HandlerThread(w)] = <<>>
    /\ LET r == LRun(LockSt, <<LOp("pop", "C", hcid[w])>>, HandlerThread(w), NoneVal)
       IN  /\ SetLockSt(r.st)
           /\ lth' = [lth EXCEPT ![HandlerThread(w)] = r.todo]
           /\ hpc' = [hpc EXCEPT ![w] = IF r.todo = <<>> THEN "done" ELSE "disc_handle"]
    /\ UNCHANGED <<now, hcid, hsid, hsent, todo, swtodo, swpc, swStart, nextSid, nextB, nframes,
                   clientFrames, backendFrames, lim, jobVars, recvd, mapVars, dialVars>>

\* TimeoutMap.cleanup of the map of sweeper sw
lock_cleanup(sw) ==
    /\ swpc[sw] = "run"
    /\ lth[SweeperThread(sw)] = <<>>
    /\ MapOf(sw).heap # <<>>
    /\ Head(MapOf(sw).heap)[1] <= now
    /\ LET r == LRun(LockSt, <<LOp("cleanup", MapTag(sw), NoneVal)>>, SweeperThread(sw),
                     NoneVal)
       IN  /\ SetLockSt(r.st)
           /\ lth' = [lth EXCEPT ![SweeperThread(sw)] = r.todo]
    /\ UNCHANGED <<now, hpc, hcid, hsid, hsent, todo, swtodo, swpc, swStart, nextSid, nextB,
                   nframes, clientFrames, backendFrames, lim, jobVars, recvd, mapVars, dialVars>>

\* a thread goes on: the close it awaited is through, or it tries the lock
\* again
lock_resume(t) ==
    /\ lth[t] # <<>>
    /\ LET r == LRun(LockSt, lth[t], t, NoneVal)
       IN  /\ SetLockSt(r.st)
           /\ lth' = [lth EXCEPT ![t] = r.todo]
           /\ hpc' = IF t.kind = "handler" /\ r.todo = <<>>
                     THEN [hpc EXCEPT ![t.id] = "done"] ELSE hpc
    /\ UNCHANGED <<now, hcid, hsid, hsent, todo, swtodo, swpc, swStart, nextSid, nextB, nframes,
                   clientFrames, backendFrames, lim, jobVars, recvd, mapVars, dialVars>>

\* One client, its teardown by disconnect and by the three sweepers.
NextLock ==
    \/ \E w \in W, cid \in CIDs : accept_client_connection(w, cid)
    \/ \E w \in W : accept_paired(w)
    \/ \E w \in W : handle_client_connection(w)
    \/ \E w \in W : client_gone(w)
    \/ \E w \in W : handler_resume(w)
    \/ \E w \in W : lock_disconnect(w)
    \/ \E sw \in Sweepers : lock_cleanup(sw)
    \/ \E t \in LThreads : lock_resume(t)
    \/ Tick

InitLock == InitWith([clients |-> 1, supplied |-> FALSE, backoff |-> 1, backends |-> 1,
                      frames |-> 0, msgs |-> 0, time |-> MaxTime,
                      token |-> AllValid, values |-> 1, raises |-> FALSE,
                      step |-> TickStep, callbacks |-> 0])

\* a coroutine that can go on is scheduled by the event loop in the end
SpecLock == InitLock /\ [][NextLock]_vars /\ WF_vars(\E t \in LThreads : lock_resume(t))

\* ------------------------------------------- the status listener, at length
\* The listener alone, on a status socket that connects or not, carries
\* queue-status messages and breaks.
NextListen ==
    \/ listener_connected
    \/ listener_connect_failed
    \/ listener_socket_lost
    \/ engine_status
    \/ listener_handle

InitListen == InitWith([clients |-> 0, supplied |-> FALSE, backoff |-> 1, backends |-> 0,
                        frames |-> 0, msgs |-> 0, time |-> 0,
                        token |-> AllValid, values |-> 1, raises |-> FALSE,
                        step |-> TickStep, callbacks |-> 0])

SpecListen == InitListen /\ [][NextListen]_vars

\* ----------------------------------------- teardown with a close callback
\* One client of a ConnectionManager that was given a
\* connection_close_callback, with the sweepers and the clock.
InitClose == InitWith([clients |-> 1, supplied |-> FALSE, backoff |-> 1, backends |-> 1,
                       frames |-> 0, msgs |-> MaxClientMsgs, time |-> MaxTime,
                       token |-> AllValid, values |-> 1, raises |-> FALSE,
                       step |-> TickStep, callbacks |-> 1])

SpecClose == InitClose /\ [][NextTwo]_vars

\* ------------------------------------------- submits that omit an input
\* the inputs of a request are a list: a caller may leave the input node out
OptionalInputs == CallerInputs \cup {<<>>}

\* SpecFlow with callers that may send an empty list of inputs.
NextOmit ==
    \/ \E w \in W, cid \in CIDs : accept_client_connection(w, cid)
    \/ \E w \in W : accept_paired(w)
    \/ \E r \in Reqs, cid \in CIDs, inputs \in OptionalInputs : queue_workflow(r, cid, inputs)
    \/ \E r \in Reqs : engine_accepts(r)
    \/ \E r \in Reqs : post_failed(r)

InitOmit == InitWith([clients |-> NumClients, supplied |-> FALSE, backoff |-> 1,
                      backends |-> MaxSid, frames |-> 0, msgs |-> 0, time |-> 0,
                      token |-> AllValid, values |-> MaxValue, raises |-> FALSE,
                      step |-> TickStep, callbacks |-> 0])

SpecOmit == InitOmit /\ [][NextOmit]_vars

\* ------------------------------------------------- client text, at length
\* One client that sends text frames while the clock advances and the pump
\* replaces a lost backend socket.
NextText ==
    \/ \E w \in W, cid \in CIDs : accept_client_connection(w, cid)
    \/ \E w \in W : accept_paired(w)
    \/ \E w \in W : handle_client_connection(w)
    \/ \E w \in W : client_text(w)
    \/ \E w \in W : client_gone(w)
    \/ \E w \in W : receive_failed(w)
    \/ \E w \in W : handler_resume(w)
    \/ \E b \in BIDs : backend_dies(b)
    \/ \E sid \in SIDs : pump_recv_failed(sid)
    \/ \E sid \in SIDs : pump_reconnected(sid)
    \/ Tick

InitText == InitWith([clients |-> 1, supplied |-> FALSE, backoff |-> 1, backends |-> MaxSid,
                      frames |-> 0, msgs |-> MaxTexts, time |-> MaxTime,
                      token |-> AllValid, values |-> 1, raises |-> FALSE,
                      step |-> TickStep, callbacks |-> 0])

SpecText == InitText /\ [][NextText]_vars

\* ------------------------------------------- the pump and its reconnects
\* One client and its pump; the engine may refuse a reconnect at every
\* delay, the largest one included.
NextBackoff ==
    \/ \E w \in W, cid \in CIDs : accept_client_connection(w, cid)
    \/ \E w \in W : accept_paired(w)
    \/ \E w \in W : handle_client_connection(w)
    \/ \E w \in W : client_gone(w)
    \/ \E w \in W : receive_failed(w)
    \/ \E w \in W : handler_resume(w)
    \/ \E sid \in SIDs : backend_binary(sid)
    \/ \E sid \in SIDs : backend_text(sid)
    \/ \E b \in BIDs : backend_dies(b)
    \/ \E sid \in SIDs : pump_recv_failed(sid)
    \/ \E sid \in SIDs : pump_reconnected(sid)
    \/ \E sid \in SIDs : pump_reconnect_failed(sid)

InitBackoff == InitWith([clients |-> 1, supplied |-> FALSE, backoff |-> 2 * max_backoff,
                         backends |-> MaxSid, frames |-> MaxFrames, msgs |-> 0, time |-> 0,
                         token |-> AllValid, values |-> 1, raises |-> FALSE,
                         step |-> TickStep, callbacks |-> 0])

SpecBackoff == InitBackoff /\ [][NextBackoff]_vars

\* ------------------------------------------------------------------ C1
\* the pairs either index records
IndexPairs ==
    {<<c, cid_sid_map[c]>> : c \in DOMAIN cid_sid_map}
        \cup {<<sid_cid_map[s], s>> : s \in DOMAIN sid_cid_map}

\* C1: in every reachable state the two indexes are mutually inverse
\* (cid_sid_map[cid] = sid iff sid_cid_map[sid] = cid) and no cid and no sid
\* belongs to more than one pair.
C1_IndexesInverse ==
    /\ \A c \in DOMAIN cid_sid_map :
          cid_sid_map[c] \in DOMAIN sid_cid_map /\ sid_cid_map[cid_sid_map[c]] = c
    /\ \A s \in DOMAIN sid_cid_map :
          sid_cid_map[s] \in DOMAIN cid_sid_map /\ cid_sid_map[sid_cid_map[s]] = s
    /\ \A p, q \in IndexPairs : (p[1] = q[1] \/ p[2] = q[2]) => p = q

\* ------------------------------------------------------------------ C2
\* a step of one of the three sweeps of connection_cleanup
SweepStep == \E sw \in Sweepers : cleanup(sw) \/ cleanup_resume(sw)

\* cid is linked to a sid in both indexes
Linked(c) ==
    /\ c \in DOMAIN cid_sid_map
    /\ cid_sid_map[c] \in DOMAIN sid_cid_map
    /\ sid_cid_map[cid_sid_map[c]] = c

\* the client of a linked pair whose last activity is less than idle_timeout ago
ActiveClient(c) ==
    /\ c \in DOMAIN client.data
    /\ client.ts[c] + IdleTimeout > now
    /\ wsState[client.data[c]] = "open"
    /\ Linked(c)

\* C2: a client of a linked pair that has refreshed its activity within
\* idle_timeout survives a cleanup: no step of the sweeps removes its cid from
\* the client map, unlinks its pair or closes its websocket.
C2_ActiveSurvivesCleanup ==
    [][\A c \in CIDs :
          (ActiveClient(c) /\ SweepStep) =>
              /\ c \in DOMAIN client'.data
              /\ c \in DOMAIN cid_sid_map' /\ cid_sid_map'[c] = cid_sid_map[c]
              /\ cid_sid_map[c] \in DOMAIN sid_cid_map' /\ sid_cid_map'[cid_sid_map[c]] = c
              /\ wsState'[client.data[c]] = "open"]_vars

\* ------------------------------------------------------------------ C4
\* the removal of pair p has left nothing of it behind
TornDown(p) ==
    /\ ~(p.cid \in DOMAIN cid_sid_map /\ cid_sid_map[p.cid] = p.sid)
    /\ ~(p.sid \in DOMAIN sid_cid_map /\ sid_cid_map[p.sid] = p.cid)
    /\ pump[p.sid].st = "cancelled"
    /\ wsState[p.ws] \in {"closed", "gone"}
    /\ bState[p.b] = "closed"
    /\ bState[pump[p.sid].b] = "closed"

\* ------------------------------------------------------------------ C3
\* the sweep of map sw has run to its end at the present time (a sweep that
\* finds nothing due changes nothing, so it counts as run)
Swept(sw) ==
    /\ swpc[sw] = "run"
    /\ swtodo[sw] = <<>>
    /\ \/ swStart[sw] = now
       \/ MapOf(sw).heap = <<>>
       \/ Head(MapOf(sw).heap)[1] > now

\* connection_cleanup has returned at the present time
CleanupDone == \A sw \in Sweepers : Swept(sw)

\* C3: after a cleanup cycle no client idle for longer than idle_timeout is
\* left in the client map, and every pair the cycle removed is closed and
\* gone from the maps and the indexes.
C3_IdleClientEvicted ==
    CleanupDone =>
        /\ \A c \in DOMAIN client.data : ~(client.ts[c] + IdleTimeout < now)
        /\ \A p \in torn : TornDown(p) /\ p.sid \notin DOMAIN task.data

\* C4: once the removal of either side of a live pair has completed, both
\* index entries are gone, the pump is cancelled and the client websocket
\* and the backend websocket are closed.
C4_WholePairTornDown == \A p \in torn : TornDown(p)

\* ------------------------------------------------------------------ C5
\* a step of the pump of session sid other than its cancellation
PumpStep(sid) ==
    /\ pump[sid].st \in {"recv", "dial"}
    /\ pump'[sid] # pump[sid]
    /\ pump'[sid].st # "cancelled"

\* C5: a pump that fails on a backend read re-dials for its own sid; when the
\* dial succeeds it registers the new, open socket under that sid and is
\* back to forwarding.  No step of this touches the two indexes, the client
\* map or any client websocket.
C5_ReconnectKeepsPair ==
    [][\A sid \in SIDs :
          PumpStep(sid) =>
              /\ cid_sid_map' = cid_sid_map
              /\ sid_cid_map' = sid_cid_map
              /\ client' = client
              /\ wsState' = wsState
              /\ pump'[sid].ws = pump[sid].ws
              /\ pump[sid].st = "recv" =>
                    pump'[sid].st = "dial" /\ pump'[sid].b = pump[sid].b
              /\ (pump[sid].st = "dial" /\ pump'[sid].st = "recv") =>
                    /\ pump'[sid].b # pump[sid].b
                    /\ bState'[pump'[sid].b] = "open"
                    /\ sid \in DOMAIN server'.data
                    /\ server'.data[sid] = pump'[sid].b
                    /\ server'.ts[sid] = now]_vars

\* a pair that lost its backend socket, got a new one, and has had a binary
\* frame forwarded from the new one
C5_Witness ==
    \E sid \in SIDs :
        /\ pump[sid].st = "recv"
        /\ \E b0 \in BIDs : b0 < pump[sid].b /\ bState[b0] = "closed"
        /\ pump[sid].ws \in W
        /\ wsState[pump[sid].ws] = "open"
        /\ \E i \in DOMAIN recvd[sid] :
              /\ recvd[sid][i].b = pump[sid].b
              /\ recvd[sid][i].kind = "bytes"
              /\ \E j \in DOMAIN clientFrames[pump[sid].ws] :
                    clientFrames[pump[sid].ws][j] = <<"bin", skip_header(recvd[sid][i].body)>>
        /\ sid \in DOMAIN sid_cid_map /\ Linked(sid_cid_map[sid])

\* ------------------------------------------------------------------ C6
\* the pump of session sid has stopped, told the client and closed it
GaveUp(sid) ==
    /\ pump[sid].st \notin {"recv", "dial"}
    /\ wsState[pump[sid].ws] = "closed"
    /\ \E i \in DOMAIN clientFrames[pump[sid].ws] :
          clientFrames[pump[sid].ws][i][1] = "error"

Reconnecting(w) ==
    /\ hpc[w] = "recv"
    /\ wsState[w] = "open"
    /\ hcid[w] \in DOMAIN client.data
    /\ Linked(hcid[w])
    /\ cid_sid_map[hcid[w]] = hsid[w]
    /\ hsid[w] \in DOMAIN server.data
    /\ pump[hsid[w]].st = "dial"
    /\ bState[pump[hsid[w]].b] = "closed"

\* C7: a text frame from the client while its pair is reconnecting leaves
\* the client websocket open and the pair in place.
C7_TextWhileReconnecting ==
    [][\A w \in W :
          (Reconnecting(w) /\ hsent'[w] = hsent[w] + 1) =>
              /\ wsState'[w] = "open"
              /\ hcid[w] \in DOMAIN client'.data
              /\ cid_sid_map' = cid_sid_map
              /\ sid_cid_map' = sid_cid_map
              /\ pump'[hsid[w]].st = "dial"]_vars

\* ------------------------------------------------------------------ C8
\* C8: once the listener has handled a message that puts a known job into a
\* terminal state, the job is in none of the three job maps, also when the
\* status callback raised.
C8_TerminalJobCleared ==
    \A i \in DOMAIN handled :
        (handled[i].request_id # NoneVal /\ StatusOf(handled[i].type) \in Terminal) =>
            /\ handled[i].prompt_id \notin DOMAIN prompt_to_job.data
            /\ handled[i].prompt_id \notin DOMAIN prompt_to_callback.data
            /\ handled[i].request_id \notin DOMAIN request_id_to_prompt.data

\* ------------------------------------------------------------------ C9
\* the workflow_status frames of request r delivered to websocket w
StatusFrames(w, r) ==
    SelectSeq(clientFrames[w], LAMBDA f : f[1] = "workflow_status" /\ f[2] = r)

\* C9: after a terminal status of a prompt has been delivered to the client,
\* no message about that prompt is delivered any more: nothing follows a
\* terminal frame of a request, and no later message of the prompt is sent on.
C9_NothingAfterTerminal ==
    /\ \A w \in W, r \in Reqs :
          \A i, j \in DOMAIN StatusFrames(w, r) :
              i < j => StatusFrames(w, r)[i][3] \notin Terminal
    /\ \A i, j \in DOMAIN handled :
          (/\ i < j
           /\ handled[i].prompt_id = handled[j].prompt_id
           /\ handled[i].out = "sent"
           /\ StatusOf(handled[i].type) \in Terminal) => handled[j].out # "sent"

\* a terminal status was delivered and a later message about the same prompt
\* has been read by the listener
C9_Witness ==
    \E i, j \in DOMAIN handled :
        /\ i < j
        /\ handled[i].prompt_id = handled[j].prompt_id
        /\ handled[i].out = "sent"
        /\ StatusOf(handled[i].type) \in Terminal
        /\ handled[j].type \in {"executing", "execution_success"}
        /\ \E w \in W : \E k \in DOMAIN clientFrames[w] :
              /\ clientFrames[w][k][1] = "workflow_status"
              /\ clientFrames[w][k][2] = handled[i].request_id
              /\ clientFrames[w][k][3] \in Terminal

\* ------------------------------------------------------------------ C10
\* the messages of the prompt of request r that the listener has sent on
SentEvents(r) ==
    SelectSeq(handled, LAMBDA h : h.out = "sent" /\ h.prompt_id = rprompt[r])

Rank(status) == IF status = "queued" THEN 0 ELSE IF status = "running" THEN 1 ELSE 2

\* C10: the status frames of a request reach the client in the order queued,
\* running, completed.  Frames exist only for a submit that succeeded; the
\* first is "queued"; then comes one frame for each message of the request's
\* own prompt, in the order of the messages: "running" for execution_start
\* and executing, "completed" for execution_success; every frame carries the
\* request's request_id.
C10_StatusOrder ==
    \A w \in W, r \in Reqs :
        LET F == StatusFrames(w, r)
            E == SentEvents(r)
        IN  F # <<>> =>
              /\ rpc[r] \in {"sleeping", "returned"}
              /\ F[1][3] = "queued"
              /\ Len(F) = 1 + Len(E)
              /\ \A i \in DOMAIN E :
                    /\ F[i + 1][3] # "queued"
                    /\ E[i].request_id = r
                    /\ E[i].type \in {"execution_start", "executing"} => F[i + 1][3] = "running"
                    /\ E[i].type = "execution_success" => F[i + 1][3] = "completed"
              /\ \A i, j \in DOMAIN F : i < j => Rank(F[i][3]) <= Rank(F[j][3])

\* the caller has its request_id and the client has received queued, running,
\* completed for it
C10_Witness ==
    \E w \in W, r \in Reqs :
        /\ rpc[r] = "returned"
        /\ StatusFrames(w, r) = <<<<"workflow_status", r, "queued">>,
                                  <<"workflow_status", r, "running">>,
                                  <<"workflow_status", r, "completed">>>>
        /\ Len(SentEvents(r)) = 2
        /\ SentEvents(r)[1].type = "execution_start"
        /\ SentEvents(r)[2].type = "execution_success"

\* ------------------------------------------------------------------ C11
\* the "queued" frames of request r delivered to websocket w
QueuedFrames(F, w, r) ==
    SelectSeq(F[w], LAMBDA f : f = <<"workflow_status", r, "queued">>)

\* C11: when the engine has answered the POST with a prompt_id, the submitter
\* registers a job in state queued under the prompt_id, the callback under
\* the prompt_id and the prompt_id under the request_id, and calls the
\* callback with "queued" (one frame to the caller's client, if it is
\* registered and connected); no other step sends a queued frame, none is
\* sent twice, and the request_id is returned only after that step.
C11_SubmitRegisters ==
    [][\A r \in Reqs :
          /\ (rpc[r] = "accepted" /\ rpc'[r] # "accepted") =>
                LET pid == rprompt[r]
                IN  /\ pid \in DOMAIN prompt_to_job'.data
                    /\ prompt_to_job'.data[pid].status = "queued"
                    /\ prompt_to_job'.data[pid].request_id = r
                    /\ pid \in DOMAIN prompt_to_callback'.data
                    /\ prompt_to_callback'.data[pid] = r
                    /\ r \in DOMAIN request_id_to_prompt'.data
                    /\ request_id_to_prompt'.data[r] = pid
                    /\ \A w \in W :
                          IF /\ rcid[r] \in DOMAIN client.data
                             /\ client.data[rcid[r]] = w
                             /\ wsState[w] = "open"
                          THEN clientFrames'[w] =
                                  Append(clientFrames[w], <<"workflow_status", r, "queued">>)
                          ELSE clientFrames'[w] = clientFrames[w]
          /\ \A w \in W :
                /\ Len(QueuedFrames(clientFrames', w, r)) <= 1
                /\ QueuedFrames(clientFrames', w, r) # QueuedFrames(clientFrames, w, r) =>
                      rpc[r] = "accepted"
          /\ (rpc'[r] = "returned" /\ rpc[r] # "returned") => rpc[r] = "sleeping"
          /\ (rpc'[r] = "sleeping" /\ rpc[r] # "sleeping") => rpc[r] = "accepted"]_vars

\* the caller has its request_id, the client has the queued frame and the job
\* is in the three maps
C11_Witness ==
    \E r \in Reqs, w \in W :
        /\ rpc[r] = "returned"
        /\ QueuedFrames(clientFrames, w, r) # <<>>
        /\ rprompt[r] \in DOMAIN prompt_to_job.data
        /\ rprompt[r] \in DOMAIN prompt_to_callback.data
        /\ r \in DOMAIN request_id_to_prompt.data

\* ------------------------------------------------------------------ C12
\* C12: a submit that is refused for its cid, or whose POST fails or is
\* answered without a prompt_id, adds nothing to the three job maps, sends
\* no status frame and leaves the client map, the server map, the indexes,
\* the websockets and the pump as they are.
C12_FailedSubmitChangesNothing ==
    [][\A r \in Reqs :
          (\/ rpc[r] = "posting" /\ rpc'[r] = "failed"
           \/ rpc[r] = "idle" /\ rpc'[r] = "rejected") =>
              /\ prompt_to_job' = prompt_to_job
              /\ prompt_to_callback' = prompt_to_callback
              /\ request_id_to_prompt' = request_id_to_prompt
              /\ clientFrames' = clientFrames
              /\ client' = client
              /\ server' = server
              /\ cid_sid_map' = cid_sid_map
              /\ sid_cid_map' = sid_cid_map
              /\ wsState' = wsState
              /\ bState' = bState
              /\ pump' = pump]_vars

\* a request refused for its cid, and one whose POST failed while the pair of
\* its caller is live and connected
C12_Witness ==
    \E r1, r2 \in Reqs :
        /\ rpc[r1] = "rejected"
        /\ rpc[r2] = "failed"
        /\ rprompt[r2] = NoneVal
        /\ Linked(rcid[r2])
        /\ rcid[r2] \in DOMAIN client.data
        /\ wsState[client.data[rcid[r2]]] = "open"
        /\ bState[server.data[rsid[r2]]] = "open"

\* ------------------------------------------------------------------ C13
\* C13: a websocket whose handshake carries no token, or one that differs
\* from the API key, is never accepted: no cid is minted for it, no backend
\* is dialled for it and no map holds it.
C13_BadTokenRejected ==
    \A w \in W :
        lim.token[w] # "valid" =>
            /\ wsState[w] = "new"
            /\ hcid[w] = NoneVal
            /\ hpc[w] = "idle"
            /\ \A c \in DOMAIN client.data : client.data[c] # w
            /\ \A sid \in SIDs : pump[sid].ws # w

\* ------------------------------------------------------------------ C14
\* C14: whatever queue requests have been made, GET /workflows/{id} answers
\* with the descriptor as analysed from the workflow file.
C14_CachedDescriptorIntact == get_workflow = analyze_workflow

\* ------------------------------------------------------------------ C15
\* C15: in the prompt posted for a request every input of the caller is in
\* place (nodes[node_id].inputs.input_id is the value sent), and every
\* websocket image output node carries the request_id as output_id and the
\* sid of the caller's pair as client_id.
C15_PostedPromptRewritten ==
    \A r \in DOMAIN posted :
        /\ \A i \in DOMAIN posted[r].inputs :
              posted[r].prompt[posted[r].inputs[i].node_id].input_id = posted[r].inputs[i].value
        /\ \A k \in DOMAIN OutputNodes :
              /\ posted[r].prompt[OutputNodes[k]].output_id = r
              /\ posted[r].prompt[OutputNodes[k]].client_id = rsid[r]

\* ------------------------------------------------------------------ C16
\* the binary frames the pump of sid has read, and the frames it has passed on
BytesRecvd(sid) == SelectSeq(recvd[sid], LAMBDA m : m.kind = "bytes")
ForwardedIn(F, w) == SelectSeq(F[w], LAMBDA f : f[1] \notin {"uuid", "workflow_status"})
Forwarded(w) == ForwardedIn(clientFrames, w)

\* C16: the frames a pump has passed to its client are, one for one and in
\* order, the binary frames it has read from its backend sockets, each
\* without its first 8 bytes; frames are missing only from the point where
\* the client websocket was no longer open, and no text frame is passed on.
C16_FramesInOrder ==
    \A sid \in SIDs :
        pump[sid].st # "none" =>
            LET F == Forwarded(pump[sid].ws)
                R == BytesRecvd(sid)
            IN  /\ Len(F) <= Len(R)
                /\ wsState[pump[sid].ws] = "open" => Len(F) = Len(R)
                /\ \A i \in DOMAIN F :
                      /\ F[i][1] = "bin"
                      /\ Len(F[i][2]) = Len(R[i].body) - 8
                      /\ R[i].body = SubSeq(R[i].body, 1, 8) \o F[i][2]

\* two binary frames passed on, a text frame read between them and the
\* second binary frame read from a socket the pump has dialled itself
C16_Witness ==
    \E sid \in SIDs :
        /\ pump[sid].st = "recv"
        /\ Len(recvd[sid]) = 3
        /\ recvd[sid][1].kind = "bytes"
        /\ recvd[sid][2].kind = "str"
        /\ recvd[sid][3].kind = "bytes"
        /\ recvd[sid][3].b # recvd[sid][1].b
        /\ Len(Forwarded(pump[sid].ws)) = 2

\* ------------------------------------------------------------------ C17
\* C17: a frame between the gateway and a client sets the client's
\* last-activity time to the present: a text frame received from it and a
\* binary frame the pump passes to it.
C17_TrafficRefreshesClient ==
    [][/\ \A w \in W :
             (hsent'[w] # hsent[w] /\ hcid[w] \in DOMAIN client'.data) =>
                 client'.ts[hcid[w]] = now
       /\ \A w \in W, c \in DOMAIN client.data :
             (/\ client.data[c] = w
              /\ c \in DOMAIN client'.data
              /\ Len(ForwardedIn(clientFrames', w)) = Len(Forwarded(w)) + 1) =>
                 client'.ts[c] = now]_vars

\* ------------------------------------------------------------------ C18
\* C18: pop(k) of a key that is in the map, whatever its value v, leaves
\* get(k) at None and has called on_evict(k, v), once.
C18_PopEvicts ==
    [][\A k \in MapKeys :
          (k \in DOMAIN imap.data /\ removed' = Append(removed, <<k, imap.data[k]>>)) =>
              /\ k \notin DOMAIN imap'.data
              /\ TM_get(imap', k) = NoneVal
              /\ evicts' = Append(evicts, <<k, imap.data[k]>>)]_vars

\* ------------------------------------------------------------------ C19
\* C19: the calls of on_evict are the (key, value) instances that have left
\* the map through a pop or a sweep, one call for each and in that order.
C19_EvictedExactlyOnce == evicts = removed

\* ------------------------------------------------------------------ C20
\* C20: an error of on_evict does not end the sweeper: run_cleanup goes on,
\* and the keys the sweep found expired do not stay behind unpopped.
C20_EvictErrorSwallowed == msweep.pc # "dead"

\* ------------------------------------------------------------------ C21
\* prompt p is registered and no event has touched it for the TTL
JobDue(p) ==
    /\ p \in DOMAIN prompt_to_job.data
    /\ prompt_to_job.ts[p] + JobIdleTimeout <= now

\* C21: a job that stays without a status event for the 24 h TTL is
\* eventually removed from the job maps.
C21_IdleJobEvicted ==
    \A p \in Prompts :
        JobDue(p) ~> (/\ p \notin DOMAIN prompt_to_job.data
                      /\ p \notin DOMAIN prompt_to_callback.data)

\* ------------------------------------------------------------------ C22
\* the sockets connect_to_backend has opened and not closed
OpenSockets == {i \in DOMAIN dsock : dsock[i].st = "open"}

\* C22: connect_to_backend makes at most MAX_RETRIES attempts and comes to
\* an end; a failed attempt has closed its socket before the next one
\* starts; after the last failure ConnectionError is raised with every
\* socket closed and nothing registered.
C22_ConnectTerminates ==
    /\ [](/\ dial.attempt <= MAX_RETRIES
          /\ Len(dsock) <= dial.attempt
          /\ dial.pc = "connect" => OpenSockets = {}
          /\ dial.pc = "recv" => OpenSockets = {dial.backend_ws}
          /\ dial.pc = "raised" =>
                /\ dial.attempt = MAX_RETRIES
                /\ OpenSockets = {}
                /\ server = EmptyMap)
    /\ (dial.pc \in {"connect", "recv"}) ~> (dial.pc \in {"returned", "registered", "raised"})

C22_Witness ==
    /\ dial.pc = "raised"
    /\ Len(dsock) = MAX_RETRIES
    /\ \A i \in DOMAIN dsock : dsock[i].st = "closed"

\* ------------------------------------------------------------------ C23
\* C23: a socket whose handshake named another sid than the one asked for
\* is closed, and nothing in the registry refers to it.
C23_MismatchedSessionRefused ==
    \A i \in DOMAIN dsock :
        (dial.want # NoneVal /\ dsock[i].sid # NoneVal /\ dsock[i].sid # dial.want) =>
            /\ dsock[i].st = "closed"
            /\ \A s \in DOMAIN server.data : server.data[s] # i

\* ------------------------------------------------------------------ C24
\* a step of a chain of pops: a handler's disconnect or a sweep
TeardownStep == todo' # todo \/ swtodo' # swtodo

\* the pair of session sid is still registered and linked
PairOf(sid) ==
    /\ sid \in DOMAIN server.data
    /\ sid \in DOMAIN sid_cid_map
    /\ Linked(sid_cid_map[sid])

\* C24: a teardown closes the backend socket a pump reads only when that
\* pump has been cancelled, and no pump enters its reconnect loop for a pair
\* whose teardown has begun.
C24_CancelBeforeClose ==
    [][\A sid \in SIDs :
          /\ (/\ TeardownStep
              /\ pump[sid].st \in {"recv", "dial"}
              /\ bState[pump[sid].b] = "open"
              /\ bState'[pump[sid].b] = "closed") => pump'[sid].st = "cancelled"
          /\ (pump[sid].st = "recv" /\ pump'[sid].st = "dial") => PairOf(sid)]_vars


\* ------------------------------------------------------------------ C25
\* C25: the pump of every live pair whose client and backend entries are not
\* due, and whose two websockets are open, is alive: it has not been
\* cancelled and has not ended.
C25_LivePairLivePump ==
    \A p \in LivePairs(CurSt) :
        (/\ client.ts[p.cid] + IdleTimeout > now
         /\ server.ts[p.sid] + IdleTimeout > now
         /\ wsState[p.ws] = "open"
         /\ bState[p.b] = "open") =>
            pump[p.sid].st \in {"recv", "dial"}

\* ------------------------------------------------------------------ C26
\* request r has been submitted with success: the engine accepted its POST
Submitted(r) == rpc[r] \in {"accepted", "sleeping", "returned"}

\* C26: no terminal event of a submitted prompt is dropped by the listener
\* as the event of an unknown job, unless a terminal event of that prompt
\* has been handled before it.
C26_NoEventLost ==
    \A i \in DOMAIN handled :
        (/\ handled[i].out = "unknown_job"
         /\ StatusOf(handled[i].type) \in Terminal
         /\ \E r \in Reqs : Submitted(r) /\ rprompt[r] = handled[i].prompt_id) =>
            \E j \in 1 .. (i - 1) :
                /\ handled[j].prompt_id = handled[i].prompt_id
                /\ StatusOf(handled[j].type) \in Terminal
                /\ handled[j].out # "unknown_job"

\* ------------------------------------------------------------------ C27
\* C27: while the pump of a session is alive, the backend socket registered
\* for the session is not closed.
C27_AlivePumpOpenBackend ==
    \A sid \in SIDs :
        (pump[sid].st \in {"recv", "dial"} /\ sid \in DOMAIN server.data) =>
            bState[server.data[sid]] # "closed"

\* ------------------------------------------------------------------ C28
\* C28: when one cleanup() has run from its scan to its return with nothing
\* in between, no key whose last touch + idle_timeout <= now is left in the
\* map, and every key whose last touch + idle_timeout > now is still there.
C28_CleanupExact ==
    [][(map_cleanup /\ msweep'.pc = "idle") =>
          /\ \A k \in DOMAIN imap'.data : imap'.ts[k] + IdleTimeout > now
          /\ \A k \in DOMAIN imap.data :
                imap.ts[k] + IdleTimeout > now => k \in DOMAIN imap'.data]_vars

\* ------------------------------------------------------------------ C29
\* C29: a sweep calls on_evict only for a key whose recorded deadline
\* (last touch + idle_timeout) is <= now at the moment the sweep removes it;
\* a key touched again after the scan is left alone.
C29_SweepEvictsOnlyExpired ==
    [][(msweep' # msweep /\ evicts' # evicts) =>
          LET k == evicts'[Len(evicts')][1]
          IN  imap.ts[k] + IdleTimeout <= now]_vars

\* ------------------------------------------------------------------ C30
\* C30: every key in the map has a heap entry (d, k) with
\* d >= last touch + idle_timeout.
C30_StoredKeyHasHeapEntry ==
    \A k \in DOMAIN imap.data :
        \E i \in 1 .. Len(imap.heap) :
            /\ imap.heap[i][2] = k
            /\ imap.heap[i][1] >= imap.ts[k] + IdleTimeout

\* ------------------------------------------------------------------ C31
\* C31: no eviction callback is called while the lock of its map is held,
\* no lock is held while a coroutine waits, and every pop and sweep that has
\* started, with the callbacks it calls on its own and on the paired map,
\* comes to its end.
C31_EvictOutsideLock ==
    /\ [](cbheld = {} /\ \A m \in Maps : lk[m] = Free)
    /\ (\E t \in LThreads : lth[t] # <<>>) ~> (\A t \in LThreads : lth[t] = <<>>)

\* a sweeper is suspended inside the eviction callbacks of a linked pair,
\* which have emptied the client map, the server map and the task map
C31_Witness ==
    /\ \E sw \in Sweepers : lth[SweeperThread(sw)] # <<>>
    /\ \E w \in W : hpc[w] = "recv" /\ hsid[w] # NoneVal
    /\ client.data = <<>> /\ server.data = <<>> /\ task.data = <<>>
    /\ \E sid \in SIDs : pump[sid].st = "cancelled"

\* ------------------------------------------------------------------ C32
\* attempt i of the listener ended without a message having been handled
FailedAttempt(i) == lruns[i] = (IF i = 1 THEN 0 ELSE lruns[i - 1])

\* C32: the listener gives up only after MAX_RETRIES failed attempts in a
\* row: when it has raised ConnectionError, none of its last MAX_RETRIES
\* attempts was a connection on which it handled a message.
C32_BudgetCountsConsecutive ==
    lpc = "dead" =>
        /\ Len(lruns) >= MAX_RETRIES
        /\ \A i \in (Len(lruns) - MAX_RETRIES + 1) .. Len(lruns) : FailedAttempt(i)

\* ------------------------------------------------------------------ C33
\* C33: the close callback is never called with the sid of a backend, and
\* for a pair whose teardown has completed it has been called once, with
\* the cid of the pair.
C33_CloseCallbackOncePerPair ==
    /\ \A i \in DOMAIN notified : notified[i].names = "cid"
    /\ \A p \in torn :
          Len(SelectSeq(notified, LAMBDA n : n.names = "cid" /\ n.arg = p.cid)) = 1

\* ------------------------------------------------------------------ C34
\* handler w is about to accept with a cid that is mapped to a sid whose
\* registered backend socket is open
Resumes(w, cid) ==
    /\ hpc[w] = "idle"
    /\ cid \in DOMAIN cid_sid_map
    /\ cid_sid_map[cid] \in DOMAIN server.data
    /\ bState[server.data[cid_sid_map[cid]]] = "open"

\* C34: an accept with a supplied cid that maps to a sid with an open
\* backend socket goes through and reuses that socket: the websocket stays
\* open, no backend is dialled, both indexes are as before, and the pump of
\* the sid delivers to the new websocket from then on.
C34_SuppliedCidReusesBackend ==
    [][\A w \in W :
          (Resumes(w, hcid'[w]) /\ hpc'[w] # "idle") =>
              /\ hpc'[w] # "failed"
              /\ wsState'[w] = "open"
              /\ nextB' = nextB
              /\ cid_sid_map' = cid_sid_map
              /\ sid_cid_map' = sid_cid_map
              /\ pump'[cid_sid_map[hcid'[w]]].ws = w]_vars

\* ------------------------------------------------------------------ C35
\* C35: when the dial of the backend fails during accept, nothing of the
\* accept is left: the client map has no entry for the websocket, the
\* websocket is closed, and no index, server or task entry refers to the cid.
C35_FailedPairingLeavesNoTrace ==
    [][\A w \in W :
          (hpc[w] = "dial" /\ hpc'[w] = "failed") =>
              /\ wsState'[w] # "open"
              /\ TM_get(client', hcid[w]) # w
              /\ hcid[w] \notin DOMAIN cid_sid_map'
              /\ \A sid \in DOMAIN sid_cid_map' : sid_cid_map'[sid] # hcid[w]
              /\ server' = server
              /\ task' = task]_vars

\* ------------------------------------------------------------------ C36
\* the prompt run_workflow makes of the workflow file for the inputs, the
\* sid and the request_id of one request
PromptOf(inputs, sid, request_id) ==
    run_workflow_rewrite([analyze_workflow EXCEPT !.inputs = inputs], sid, request_id).nodes

\* C36: the prompt posted for a request is what the workflow file, the
\* request's own inputs, its request_id and its sid make it, whatever the
\* earlier requests of other clients were: an input the caller leaves out
\* has the value of the file.
C36_PostedDependsOnOwnRequest ==
    \A r \in DOMAIN posted :
        (\A q \in DOMAIN posted : q < r => rcid[q] # rcid[r]) =>
            posted[r].prompt = PromptOf(posted[r].inputs, rsid[r], r)

\* ------------------------------------------------------------------ C37
\* the status the table gives for a message type
TableStatus(type) ==
    IF type \in {"execution_start", "executing"} THEN "running"
    ELSE IF type \in {"execution_cached", "execution_success"} THEN "completed"
    ELSE IF type = "execution_error" THEN "failed"
    ELSE "interrupted"

HandledTypes == {"execution_start", "executing", "execution_cached", "execution_success",
                 "execution_error", "execution_interrupted"}

\* the workflow_status frames all clients have been sent
StatusFrameCount(F) ==
    LET RECURSIVE Sum(_)
        Sum(S) == IF S = {} THEN 0
                  ELSE LET x == CHOOSE y \in S : TRUE
                       IN  Len(SelectSeq(F[x], LAMBDA f : f[1] = "workflow_status"))
                           + Sum(S \ {x})
    IN  Sum(W)

\* C37: when the listener handles a message of a handled type about a job
\* that has a callback, the job gets the status of the table, its
\* executing_node_id changes for executing only, and the callback is invoked
\* once with the updated job (it sends at most one frame, with the job's
\* request_id and the new status).  A message of another type, or about an
\* unknown prompt_id, changes no job and invokes no callback.
C37_StatusTable ==
    [][handled' # handled =>
         LET e == Head(statusq)
             pid == e.prompt_id
             h == handled'[Len(handled')]
         IN  IF /\ pid \in DOMAIN prompt_to_job.data
                /\ pid \in DOMAIN prompt_to_callback.data
                /\ e.type \in HandledTypes
             THEN LET old == prompt_to_job.data[pid]
                      r == prompt_to_callback.data[pid]
                  IN  /\ h.out \in {"sent", "no_client", "raised"}
                      /\ pid \in DOMAIN prompt_to_job'.data =>
                            /\ prompt_to_job'.data[pid].status = TableStatus(e.type)
                            /\ e.type # "executing" =>
                                  prompt_to_job'.data[pid].executing_node_id =
                                     old.executing_node_id
                            /\ prompt_to_job'.data[pid].request_id = old.request_id
                      /\ pid \notin DOMAIN prompt_to_job'.data =>
                            TableStatus(e.type) \in Terminal
                      /\ \A q \in DOMAIN prompt_to_job.data \ {pid} :
                            q \in DOMAIN prompt_to_job'.data
                            /\ prompt_to_job'.data[q] = prompt_to_job.data[q]
                      /\ IF h.out = "sent"
                         THEN \E w \in W :
                                 /\ clientFrames' = [clientFrames EXCEPT ![w] =
                                       Append(@, <<"workflow_status", r,
                                                   TableStatus(e.type)>>)]
                         ELSE clientFrames' = clientFrames
             ELSE /\ h.out \in {"no_prompt", "unknown_job", "unknown_type"}
                  /\ prompt_to_job'.data = prompt_to_job.data
                  /\ clientFrames' = clientFrames]_vars

\* the listener has handled an executing message and an execution_cached
\* message about registered jobs, and a message of a type it does not know
C37_Witness ==
    /\ \E i \in DOMAIN handled : handled[i].type = "executing" /\ handled[i].out = "sent"
    /\ \E i \in DOMAIN handled : handled[i].out \in {"unknown_type", "unknown_job"}
    /\ \E p \in DOMAIN prompt_to_job.data :
          /\ prompt_to_job.data[p].status = "running"
          /\ prompt_to_job.data[p].executing_node_id # NoneVal
    /\ StatusFrameCount(clientFrames) = 2

\* ------------------------------------------------------------------ C38
\* the pair of handler w is linked and an open backend socket is registered
\* for its sid
LinkedOpen(w) ==
    /\ hpc[w] = "recv"
    /\ hcid[w] \in DOMAIN client.data
    /\ Linked(hcid[w])
    /\ cid_sid_map[hcid[w]] = hsid[w]
    /\ hsid[w] \in DOMAIN server.data
    /\ bState[server.data[hsid[w]]] = "open"

\* the numbers of the text frames of client w that socket b has been sent
TextsOn(b, w) == SelectSeq(backendFrames[b], LAMBDA f : f[1] = w)

\* C38: a text frame received from the client of a linked pair re-stamps
\* the client entry and is passed, as it is, to the backend socket
\* registered for the pair's sid at that moment and to no other; every
\* backend socket gets the frames in the order the client sent them, and a
\* replacement socket only frames later than those of the socket it replaced.
C38_TextForwarded ==
    /\ [][\A w \in W :
             (hsent'[w] # hsent[w] /\ LinkedOpen(w)) =>
                 /\ hcid[w] \in DOMAIN client'.data
                 /\ client'.ts[hcid[w]] = now
                 /\ \E i \in DOMAIN client'.heap :
                       client'.heap[i] = <<now + IdleTimeout, hcid[w]>>
                 /\ backendFrames' =
                       [backendFrames EXCEPT ![server.data[hsid[w]]] =
                           Append(@, <<w, hsent[w] + 1>>)]
                 /\ hpc'[w] = "recv"]_vars
    /\ [](\A w \in W, b \in BIDs, c \in BIDs :
             /\ \A i, j \in DOMAIN TextsOn(b, w) :
                   i < j => TextsOn(b, w)[i][2] < TextsOn(b, w)[j][2]
             /\ b < c =>
                   \A i \in DOMAIN TextsOn(b, w), j \in DOMAIN TextsOn(c, w) :
                      TextsOn(b, w)[i][2] < TextsOn(c, w)[j][2])

\* two text frames have gone to the first backend socket and, after the
\* reconnect and at a later time, a third to its replacement
C38_Witness ==
    \E w \in W :
        /\ LinkedOpen(w)
        /\ Len(TextsOn(1, w)) = 2
        /\ Len(TextsOn(2, w)) = 1
        /\ server.data[hsid[w]] = 2
        /\ \E i, j \in DOMAIN client.heap : client.heap[i][1] < client.heap[j][1]

\* ------------------------------------------------------------------ C39
\* handler w has left handle_client_connection after its receive loop
Returned(w) == hpc[w] = "done" /\ hsid[w] # NoneVal

\* no teardown is under way
Quiet == (\A w \in W : todo[w] = <<>>) /\ (\A sw \in Sweepers : swtodo[sw] = <<>>)

\* C39: once the handler of a client has returned from its receive loop
\* and no teardown is still under way, the pair is gone: its client entry
\* and both index entries are removed, the pump is cancelled, no backend
\* socket is registered for the sid and the pump's backend socket is closed.
C39_HandlerEndTearsDown ==
    \A w \in W :
        (Returned(w) /\ Quiet) =>
            /\ TM_get(client, hcid[w]) # w
            /\ hcid[w] \in DOMAIN cid_sid_map => cid_sid_map[hcid[w]] # hsid[w]
            /\ hsid[w] \notin DOMAIN sid_cid_map
            /\ pump[hsid[w]].st = "cancelled"
            /\ hsid[w] \notin DOMAIN server.data
            /\ bState[pump[hsid[w]].b] # "open"

\* ------------------------------------------------------------------ C40
\* the delays of the reconnect loop
Delays == {2 ^ k : k \in 0 .. 7}

\* C40: the pump's reconnect delay is always one of 1, 2, 4, ..., 128: it is
\* 1 when the pump starts, a failed reconnect attempt doubles it up to
\* max_backoff and no further, and it is 1 again after a successful
\* reconnect and after every backend message the pump has received and
\* handled.
C40_BackoffLadder ==
    /\ [](\A sid \in SIDs : pump[sid].backoff \in Delays /\ pump[sid].backoff <= 128)
    /\ [][\A sid \in SIDs :
             /\ (pump[sid].st = "none" /\ pump'[sid].st # "none") => pump'[sid].backoff = 1
             /\ (pump[sid].st = "dial" /\ pump'[sid].st = "dial"
                     /\ pump'[sid] # pump[sid]) =>
                   pump'[sid].backoff = Min(2 * pump[sid].backoff, 128)
             /\ (pump[sid].st = "dial" /\ pump'[sid].st = "recv") => pump'[sid].backoff = 1
             /\ (recvd'[sid] # recvd[sid] /\ pump'[sid].st = "recv") =>
                   pump'[sid].backoff = 1]_vars

\* the pump has forwarded a frame, lost its backend, reconnected, lost the
\* new socket too and has been refused up to the largest delay
C40_Witness ==
    \E sid \in SIDs :
        /\ pump[sid].st = "dial"
        /\ pump[sid].backoff = max_backoff
        /\ pump[sid].b > 1
        /\ \E i \in DOMAIN clientFrames[pump[sid].ws] :
              clientFrames[pump[sid].ws][i][1] = "bin"

====
